---- MODULE Spec2Model ----
(***************************************************************************)
(* Caption assembly of AI-Powered-Media-Captions.                          *)
(*                                                                         *)
(* Browser pipeline: App.handleProcess -> generateCaptionsStream           *)
(* (services/openaiService.ts) fed by segmentAudioStream                   *)
(* (utils/audioUtils.ts).                                                  *)
(*                                                                         *)
(* Times: a Whisper time (a JS number of seconds) is modelled as an        *)
(* integer number of units of 0.1 ms; an SRT timestamp "HH:MM:SS,mmm" is   *)
(* the record [h, m, s, ms]; parseTimestamp yields integer milliseconds,   *)
(* parseTimestampDouble the double the code computes. The times of the     *)
(* speech-to-text service are taken as exact multiples of 0.1 ms.          *)
(* Text: a sequence of one-character strings.                              *)
(***************************************************************************)
EXTENDS Integers, Sequences, FiniteSets, TLC

VARIABLES
    status,          \* App: AppStatus
    captions,        \* App: the caption list shown (last list given to onChunk)
    captionMode,     \* App: 'Original' | 'Translation' | 'Bilingual'
    hpPc,            \* handleProcess: the await it is suspended at
    gsPc,            \* generateCaptionsStream: the await it is suspended at
    segmentCount,    \* generateCaptionsStream: let segmentCount
    completedCount,  \* generateCaptionsStream: let completedCount
    allCaptions,     \* generateCaptionsStream: const allCaptions
    activeTasks,     \* generateCaptionsStream: const activeTasks (chunk indices)
    awaited,         \* the tasks handed to the pending Promise.race / Promise.all
    taskPc,          \* per chunk task: the await it is suspended at
    taskNew,         \* per chunk task: const newCaptions
    taskFull,        \* per chunk task: const currentFullList
    taskStart,       \* per chunk task: startTime of the segment it was given (seconds)
    gsCaptions,      \* generateCaptionsStream, small-file path: const captions
    currentStart,    \* segmentAudioStream: let currentStart (seconds)
    segmentIndex,    \* segmentAudioStream: let segmentIndex
    tasks,           \* server: const tasks (the Map), as the sequence of its values
    pfPc,            \* server processFile: the await it is suspended at
    allSegments,     \* server processFile: let allSegments
    audioSegments,   \* server processFile: audioSegments.length
    batchStart,      \* server processFile: the loop variable i of lines 431-441
    tsPc,            \* transcribeWithServer / pollTaskStatus: what the client waits for
    pollResponse,    \* the answer of GET /api/task/:taskId on its way to the client
    emitKind,        \* history: which call site made the last onChunk call
    cause,           \* history: what made the run fail
    ingested,        \* history: per chunk, the number of lines it appended to allCaptions
    ingestOrder,     \* history: the chunks in the order of their addAndSortCaptions calls
    splitInput,      \* transcribeSegment on its own: response.segments of the service
    splitOffset,     \* transcribeSegment on its own: startTimeOffset (seconds)
    splitOutput,     \* transcribeSegment on its own: what smartSplit made of the segments
    trSegments,      \* translateSegments on its own: the parameter segments
    translatedSegments, \* translateSegments: const translatedSegments
    trPc,            \* translateSegments: where the call is
    trI,             \* translateSegments: the loop variable i of lines 435-438
    batchPc,         \* translateSegments: per batch, the state of its translateBatch promise
    trChunk,         \* translateSegments: the last list given to onChunk
    trReturned,      \* translateSegments: the list the call resolved with
    trReplies,       \* history: per batch, the translations array of its reply
    trOutOfOrder,    \* history: a batch completed while an earlier one was pending
    ffmpeg,          \* audioUtils: let ffmpeg (0 is null, n the n-th instance made)
    ffmpegLoaded,    \* audioUtils: let ffmpegLoaded
    ffmpegLoading,   \* audioUtils: let ffmpegLoading (0 is null, n the promise of load n)
    loadPc,          \* per load: the state of its promise
    loadValue,       \* per load: the instance its promise resolved with
    callerPc,        \* per caller of loadFFmpeg: where it is
    callerPromise,   \* per caller: the load whose promise its call returned
    callerGot,       \* per caller: the instance its await gave it
    callerVia,       \* history: per caller, the branch of loadFFmpeg its last call took
    callerPre,       \* history: per caller, the state of the latest load when it called
    videoFile,       \* App: a file is selected (videoFile is not null)
    polls,           \* pollTaskStatus: the calls of poll() that have not run to their end
    timers,          \* pollTaskStatus: the pending setTimeout(poll, 1000)
    settles,         \* history: the calls of resolve and reject of pollTaskStatus's promise
    progress,        \* App: progressInfo.progress, the last value generateCaptionsStream
                     \* gave to onProgress (-1 is null)
    progressFell,    \* history: onProgress was given a value lower than the one before it
    fullReports      \* history: the number of times onProgress was given 100

serverVars == <<tasks, pfPc, allSegments, audioSegments, batchStart, tsPc, pollResponse>>

splitVars == <<splitInput, splitOffset, splitOutput>>

trVars == <<trSegments, translatedSegments, trPc, trI, batchPc, trChunk, trReturned, trReplies,
            trOutOfOrder>>

gsVars == <<gsPc, segmentCount, completedCount, allCaptions, activeTasks, awaited, taskPc,
            taskNew, taskFull, taskStart, gsCaptions, currentStart, segmentIndex, ingested,
            ingestOrder>>

mainVars == <<status, captions, captionMode, hpPc, emitKind, cause, gsVars, serverVars>>

ffVars == <<ffmpeg, ffmpegLoaded, ffmpegLoading, loadPc, loadValue, callerPc, callerPromise,
            callerGot, callerVia, callerPre>>

pollVars == <<polls, timers, settles>>

progVars == <<progress, progressFell, fullReports>>

\* the state of the functions that are also run on their own
aloneVars == <<splitVars, trVars, ffVars>>

\* what most actions of the two pipelines leave alone
sideVars == <<aloneVars, pollVars, progVars, videoFile>>

\* the state of the app and of the two pipelines
appVars == <<mainVars, pollVars, progVars, videoFile>>

\* what the browser pipeline of generateCaptionsStream leaves alone
restVars == <<serverVars, aloneVars, pollVars, videoFile>>

vars == <<mainVars, sideVars>>

(***************************************************************************)
(* Bounds                                                                  *)
(***************************************************************************)
MaxChunks == 4

\* Program constants
MAX_CONCURRENT_TRANSCRIPTIONS == 3
maxDurationSec == 600
overlapSec == 2

\* a modelled time unit is 0.1 ms
UnitsPerSec == 10 * 1000

Chunks == 0 .. (MaxChunks - 1)

(***************************************************************************)
(* Text helpers                                                            *)
(***************************************************************************)
IsSpace(c) == c = " "

RECURSIVE trimStart(_)
trimStart(t) == IF t # <<>> /\ IsSpace(Head(t)) THEN trimStart(Tail(t)) ELSE t

RECURSIVE trimEnd(_)
trimEnd(t) ==
    IF t # <<>> /\ IsSpace(t[Len(t)]) THEN trimEnd(SubSeq(t, 1, Len(t) - 1)) ELSE t

trim(t) == trimEnd(trimStart(t))

(***************************************************************************)
(* Timestamps                                                              *)
(***************************************************************************)
formatTimestamp(seconds) ==
    [h  |-> seconds \div (3600 * UnitsPerSec),
     m  |-> (seconds % (3600 * UnitsPerSec)) \div (60 * UnitsPerSec),
     s  |-> (seconds % (60 * UnitsPerSec)) \div UnitsPerSec,
     ms |-> ((seconds % UnitsPerSec) * 1000) \div UnitsPerSec]

parseTimestamp(ts) == ts.h * 3600000 + ts.m * 60000 + ts.s * 1000 + ts.ms

(***************************************************************************)
(* addAndSortCaptions                                                      *)
(***************************************************************************)
\* Array.prototype.sort is stable: x goes after every element whose key is <= its key
RECURSIVE InsertByStart(_, _)
InsertByStart(sorted, x) ==
    IF sorted = <<>> THEN <<x>>
    ELSE IF parseTimestamp(sorted[Len(sorted)].startTime) - parseTimestamp(x.startTime) <= 0
         THEN Append(sorted, x)
         ELSE Append(InsertByStart(SubSeq(sorted, 1, Len(sorted) - 1), x), sorted[Len(sorted)])

RECURSIVE SortByStart(_)
SortByStart(caps) ==
    IF caps = <<>> THEN <<>>
    ELSE InsertByStart(SortByStart(SubSeq(caps, 1, Len(caps) - 1)), caps[Len(caps)])

(***************************************************************************)
(* parseTimestamp as the JS number it computes (lines 340-344): the double  *)
(* fl(w + fl(ms / 1000)) for the whole seconds w < 2^20, as the record of   *)
(* the exact value in ms and of its rounding error n / (1000 * 2^g); g is   *)
(* the number of fraction bits of the double.                               *)
(***************************************************************************)
Significand == 53

\* 2^n modulo 1000
RECURSIVE PowMod(_)
PowMod(n) ==
    IF n = 0 THEN 1
    ELSE IF n % 2 = 0 THEN (PowMod(n \div 2) * PowMod(n \div 2)) % 1000
    ELSE (2 * PowMod(n - 1)) % 1000

Pow2Mod == [n \in 0 .. 64 |-> PowMod(n)]

\* the remainder of ms * 2^g / 1000: what ms / 1000 has beyond its first g fraction bits
QuotRem(ms, g) == (ms * Pow2Mod[g]) % 1000

\* the g-th fraction bit of ms / 1000
QuotBit(ms, g) == IF g = 0 THEN 0 ELSE (2 * QuotRem(ms, g - 1)) \div 1000

Pow2 == [n \in 0 .. 30 |-> 2 ^ n]

\* the number of bits of w
BitLength(w) == CHOOSE n \in 0 .. 30 : w < Pow2[n] /\ (n > 0 => w >= Pow2[n - 1])

\* the position of the first fraction bit of ms / 1000 that is 1, for 0 < ms < 1000
LeadingBit ==
    [ms \in 1 .. 999 |-> CHOOSE p \in 1 .. 10 : Pow2[p] * ms >= 1000 /\ Pow2[p - 1] * ms < 1000]

\* the fraction bits of fl(ms / 1000)
QuotGrid(ms) == LeadingBit[ms] + Significand - 1

\* fl(ms / 1000) is the quotient cut after QuotGrid(ms) bits, plus one unit if this is 1
QuotUp ==
    [ms \in 1 .. 999 |->
        LET rem == QuotRem(ms, QuotGrid(ms))
        IN  IF rem > 500 \/ (rem = 500 /\ QuotBit(ms, QuotGrid(ms)) = 1) THEN 1 ELSE 0]

\* the bits g + 1 .. g + d of ms / 1000, as a number, for d <= 30
QuotBitsBelow(ms, g, d) ==
    LET d1   == IF d > 15 THEN 15 ELSE d
        high == QuotRem(ms, g) * Pow2[d1]
    IN  (high \div 1000) * Pow2[d - d1] + ((high % 1000) * Pow2[d - d1]) \div 1000

\* the fraction bits of fl(w + fl(ms / 1000))
SumGrid(w, ms) == IF w = 0 THEN QuotGrid(ms) ELSE Significand - BitLength(w)

\* fl(w + fl(ms / 1000)) is the exact sum cut after SumGrid(w, ms) bits, plus one unit
\* if this is 1 (ties to even)
SumUp(w, ms) ==
    IF w = 0 THEN QuotUp[ms]
    ELSE LET g    == SumGrid(w, ms)
             d    == QuotGrid(ms) - g
             tail == QuotBitsBelow(ms, g, d) + QuotUp[ms]
             half == Pow2[d - 1]
         IN  IF tail > half \/ (tail = half /\ QuotBit(ms, g) = 1) THEN 1 ELSE 0

\* line 343: h * 3600 + m * 60 + s + parseInt(ms) / 1000
parseTimestampDouble(ts) ==
    LET w == ts.h * 3600 + ts.m * 60 + ts.s
    IN  IF ts.ms = 0 THEN [exact |-> 1000 * w, n |-> 0, g |-> 0]
        ELSE [exact |-> 1000 * w + ts.ms,
              n     |-> 1000 * SumUp(w, ts.ms) - QuotRem(ts.ms, SumGrid(w, ts.ms)),
              g     |-> SumGrid(w, ts.ms)]

\* x - 0.5: the difference is a double, nothing is rounded
MinusHalf(x) == [x EXCEPT !.exact = @ - 500]

\* a >= b: the rounding errors (below 2^-20) decide when the exact values are equal
DoubleGE(a, b) ==
    LET shift(x, y) == IF x.g >= y.g THEN 0 ELSE IF y.g - x.g > 11 THEN 11 ELSE y.g - x.g
    IN  \/ a.exact > b.exact
        \/ /\ a.exact = b.exact
           /\ a.n * Pow2[shift(a, b)] >= b.n * Pow2[shift(b, a)]

KeepCaption_All(last, cap) == TRUE

\* the comparison of line 193 on the exact values of the timestamps
KeepCaption_Exact(last, cap) ==
    parseTimestamp(cap.startTime) >= parseTimestamp(last.endTime) - 500

\* line 193: parseTimestamp(cap.startTime) >= parseTimestamp(last.endTime) - 0.5; the
\* doubles are looked at only when the exact values do not decide
KeepCaption(last, cap) ==
    LET start == parseTimestamp(cap.startTime)
        end   == parseTimestamp(last.endTime)
    IN  \/ start > end - 500
        \/ /\ start = end - 500
           /\ DoubleGE(parseTimestampDouble(cap.startTime),
                       MinusHalf(parseTimestampDouble(last.endTime)))

RECURSIVE Dedup(_, _)
Dedup(caps, unique) ==
    IF caps = <<>> THEN unique
    ELSE IF unique = <<>> \/ KeepCaption(unique[Len(unique)], Head(caps))
         THEN Dedup(Tail(caps), Append(unique, Head(caps)))
         ELSE Dedup(Tail(caps), unique)

Renumber_Kept(caps) == caps

\* lines 199-200
Renumber(caps) == [i \in 1 .. Len(caps) |-> [caps[i] EXCEPT !.id = i - 1]]

addAndSortCaptions_NoSort(all, newSegments) ==
    LET sorted == all \o newSegments
    IN  [all |-> sorted, result |-> Renumber(Dedup(sorted, <<>>))]

\* the new value of allCaptions and the list given to onChunk (and returned)
addAndSortCaptions(all, newSegments) ==
    LET sorted == SortByStart(all \o newSegments)
    IN  [all |-> sorted, result |-> Renumber(Dedup(sorted, <<>>))]

(***************************************************************************)
(* What the speech-to-text service may answer for one chunk: start and end *)
(* are relative to the chunk, in units of 0.1 ms.                            *)
(***************************************************************************)
SegA == [start |-> 2000, end |-> 22004, text |-> <<" ", "h", "i">>]
SegB == [start |-> 13000, end |-> 22000, text |-> <<"y", "o">>]
SegC == [start |-> 5983000, end |-> 5985000, text |-> <<"h", "i", ".">>]
SegD == [start |-> 17000, end |-> 23000, text |-> <<"o", "k", " ">>]
SegE == [start |-> 17000, end |-> 45000, text |-> <<" ">>]
SegF == [start |-> 5982000, end |-> 5984000, text |-> <<"h", "i", "!">>]

\* The audio decides the answer for a chunk.  The third segment of chunk 1 starts
\* 0.5 s before the end of the first one, as far as millisecond stamps tell; SegC of
\* chunk 0 is a short line inside SegA of chunk 1, in the 2 s both chunks share.
\* SegE is a segment of blank text; chunk 2 holds no speech and has no segment.
\* SegF of chunk 0 and SegA of chunk 1 are the same speech in the 2 s both chunks
\* share, with the same start and different ends.
SttResult(i) ==
    CASE i % 3 = 0 -> <<SegB, SegE, SegF, SegC>>
      [] i % 3 = 1 -> <<SegA, SegB, SegD>>
      [] OTHER     -> <<>>

SttResults == {SttResult(i) : i \in 0 .. 2}

CaptionModes == {"Original", "Translation", "Bilingual"}
FileKinds == {"smallAudio", "largeAudio", "video"}

(***************************************************************************)
(* translateSegments, as far as generateCaptionsStream depends on it: the  *)
(* result is aligned with the input and only text differs.  reply says     *)
(* whether the batch reply holds an entry for a segment ("all") or not     *)
(* ("missing": the original text is kept).                                 *)
(***************************************************************************)
TrReplies == {"all", "missing"}

\* the reply to the translation request of chunk i
TrReply(i) == IF i % 2 = 1 THEN "missing" ELSE "all"

TranslatedText(text) == <<"#">> \o text

translateSegments(segments, reply) ==
    [i \in 1 .. Len(segments) |->
        [segments[i] EXCEPT !.text = IF reply = "all" THEN trim(TranslatedText(@)) ELSE @]]

(***************************************************************************)
(* generateCaptionsStream: the pieces of the chunk task                    *)
(***************************************************************************)
\* whisperSegments.map(seg => ({id: 0, startTime: ..., endTime: ..., text: seg.text.trim()}))
NewCaptions(whisperSegments, startTime) ==
    [i \in 1 .. Len(whisperSegments) |->
        [id        |-> 0,
         startTime |-> formatTimestamp(whisperSegments[i].start + startTime * UnitsPerSec),
         endTime   |-> formatTimestamp(whisperSegments[i].end + startTime * UnitsPerSec),
         text      |-> trim(whisperSegments[i].text)]]

\* small-file path: whisperSegments.map((seg, i) => ({id: i, ...}))
SmallCaptions(whisperSegments) ==
    [i \in 1 .. Len(whisperSegments) |->
        [id        |-> i - 1,
         startTime |-> formatTimestamp(whisperSegments[i].start),
         endTime   |-> formatTimestamp(whisperSegments[i].end),
         text      |-> trim(whisperSegments[i].text)]]

\* translated.find(tr => tr.startTime === cap.startTime)
FindTranslated(translated, cap) ==
    LET hits == {j \in 1 .. Len(translated) : translated[j].startTime = cap.startTime}
    IN  IF hits = {} THEN <<>>
        ELSE <<translated[CHOOSE j \in hits : \A k \in hits : j <= k]>>

Bilingual(text, other) == text \o <<"\n">> \o other

\* currentFullList.map(cap => ...), lines 268-278
finalBilingual(currentFullList, translated, mode) ==
    [i \in 1 .. Len(currentFullList) |->
        LET cap == currentFullList[i]
            t   == FindTranslated(translated, cap)
        IN  IF t = <<>> THEN cap
            ELSE IF mode = "Translation" THEN [cap EXCEPT !.text = t[1].text]
            ELSE [cap EXCEPT !.text = Bilingual(cap.text, t[1].text)]]

\* small-file path, lines 145-153
SmallTranslated(caps, translated, mode) ==
    IF mode = "Translation" THEN translated
    ELSE [i \in 1 .. Len(caps) |-> [caps[i] EXCEPT !.text = Bilingual(@, translated[i].text)]]

\* the start offset segmentAudioStream hands to onSegment for chunk i
ChunkStart(i) == i * (maxDurationSec - overlapSec)

RemoveTask(active, i) == SelectSeq(active, LAMBDA x : x # i)

Settled(pc) == pc \in {"done", "sttFailed", "trFailed"}

(***************************************************************************)
(* Server (part_013): smartSplit.  Characters outside ASCII are written    *)
(* with stand-ins: "Zh" and "Zi" are ideographs (U+4E00..U+9FA5); "Z." "Z!"*)
(* "Z?" "Z," "Z'" "Z;" "Z:" are the full-width marks U+3002 U+FF01 U+FF1F  *)
(* U+FF0C U+3001 U+FF1B U+FF1A and "--" is the em dash.                    *)
(***************************************************************************)
CN_MAX == 12
CN_IDEAL == 10
MIN_MERGE_LEN == 10
maxChars == 42

DEFAULT_MAX == maxChars
DEFAULT_IDEAL == (maxChars * 75) \div 100

Ideographs == {"Zh", "Zi"}

\* /[一-龥]/.test(str)
isChinese(str) == \E i \in 1 .. Len(str) : str[i] \in Ideographs

\* /([。！？，、；：,.;:—])/
punctuation == {"Z.", "Z!", "Z?", "Z,", "Z'", "Z;", "Z:", ",", ".", ";", ":", "--"}

\* /[。！？.?!]$/.test(str)
EndsSentence(str) == str # <<>> /\ str[Len(str)] \in {"Z.", "Z!", "Z?", ".", "?", "!"}

\* text.split(/\s+/).filter(w => w.length > 0)
WordStarts(text) ==
    {i \in 1 .. Len(text) : ~IsSpace(text[i]) /\ (i = 1 \/ IsSpace(text[i - 1]))}

WordEnd(text, s) ==
    CHOOSE e \in s .. Len(text) :
        /\ \A k \in s .. e : ~IsSpace(text[k])
        /\ e = Len(text) \/ IsSpace(text[e + 1])

SplitWords(text) ==
    LET starts == WordStarts(text)
        nth(k) == CHOOSE s \in starts : Cardinality({t \in starts : t < s}) = k - 1
    IN  [k \in 1 .. Cardinality(starts) |-> SubSeq(text, nth(k), WordEnd(text, nth(k)))]

\* text.split(punctuation).filter(s => s.length > 0): the runs between the marks and
\* the marks themselves, in order
RECURSIVE SplitPunctuation(_, _, _)
SplitPunctuation(text, run, rawChunks) ==
    IF text = <<>> THEN (IF run = <<>> THEN rawChunks ELSE Append(rawChunks, run))
    ELSE IF Head(text) \in punctuation
         THEN SplitPunctuation(Tail(text), <<>>,
                  Append(IF run = <<>> THEN rawChunks ELSE Append(rawChunks, run), <<Head(text)>>))
         ELSE SplitPunctuation(Tail(text), Append(run, Head(text)), rawChunks)

\* lines 223-229
RECURSIVE GluePunctuation(_, _)
GluePunctuation(rawChunks, chunks) ==
    IF rawChunks = <<>> THEN chunks
    ELSE LET raw == Head(rawChunks)
         IN  IF (\E k \in 1 .. Len(raw) : raw[k] \in punctuation) /\ chunks # <<>>
             THEN GluePunctuation(Tail(rawChunks),
                      [chunks EXCEPT ![Len(chunks)] = @ \o raw])
             ELSE IF trim(raw) # <<>>
                  THEN GluePunctuation(Tail(rawChunks), Append(chunks, trim(raw)))
                  ELSE GluePunctuation(Tail(rawChunks), chunks)

\* lines 216-233
Tokenize(text) ==
    IF isChinese(text) THEN GluePunctuation(SplitPunctuation(text, <<>>, <<>>), <<>>)
    ELSE SplitWords(text)

ExceedsMax_Never(predictedLen, MAX_LINE_LEN) == FALSE

\* line 251
ExceedsMax(predictedLen, MAX_LINE_LEN) == predictedLen > MAX_LINE_LEN

\* an accumulator that looks at the minimum length before the maximum length
RECURSIVE Accumulate_ForceFirst(_, _, _, _, _, _)
Accumulate_ForceFirst(chunks, buffer, finalLines, isChineseText, MAX_LINE_LEN, IDEAL_LEN) ==
    IF chunks = <<>> THEN (IF buffer # <<>> THEN Append(finalLines, buffer) ELSE finalLines)
    ELSE LET current      == Head(chunks)
             separator    == IF buffer # <<>> /\ ~isChineseText THEN <<" ">> ELSE <<>>
             predictedLen == Len(buffer) + Len(separator) + Len(current)
             flush        == Accumulate_ForceFirst(Tail(chunks), current,
                                 Append(finalLines, buffer),
                                 isChineseText, MAX_LINE_LEN, IDEAL_LEN)
             extend       == Accumulate_ForceFirst(Tail(chunks),
                                 buffer \o separator \o current, finalLines,
                                 isChineseText, MAX_LINE_LEN, IDEAL_LEN)
         IN  IF buffer = <<>>
             THEN Accumulate_ForceFirst(Tail(chunks), current, finalLines,
                                        isChineseText, MAX_LINE_LEN, IDEAL_LEN)
             ELSE IF Len(buffer) < MIN_MERGE_LEN THEN extend
             ELSE IF ExceedsMax(predictedLen, MAX_LINE_LEN) THEN flush
             ELSE IF EndsSentence(buffer) \/ Len(buffer) >= IDEAL_LEN THEN flush
             ELSE extend

\* an accumulator that looks at the sentence end and the ideal length before the
\* minimum length
RECURSIVE Accumulate_IdealFirst(_, _, _, _, _, _)
Accumulate_IdealFirst(chunks, buffer, finalLines, isChineseText, MAX_LINE_LEN, IDEAL_LEN) ==
    IF chunks = <<>> THEN (IF buffer # <<>> THEN Append(finalLines, buffer) ELSE finalLines)
    ELSE LET current      == Head(chunks)
             separator    == IF buffer # <<>> /\ ~isChineseText THEN <<" ">> ELSE <<>>
             predictedLen == Len(buffer) + Len(separator) + Len(current)
             flush        == Accumulate_IdealFirst(Tail(chunks), current,
                                 Append(finalLines, buffer),
                                 isChineseText, MAX_LINE_LEN, IDEAL_LEN)
             extend       == Accumulate_IdealFirst(Tail(chunks),
                                 buffer \o separator \o current, finalLines,
                                 isChineseText, MAX_LINE_LEN, IDEAL_LEN)
         IN  IF buffer = <<>>
             THEN Accumulate_IdealFirst(Tail(chunks), current, finalLines,
                                        isChineseText, MAX_LINE_LEN, IDEAL_LEN)
             ELSE IF ExceedsMax(predictedLen, MAX_LINE_LEN) THEN flush
             ELSE IF EndsSentence(buffer) \/ Len(buffer) >= IDEAL_LEN THEN flush
             ELSE IF Len(buffer) < MIN_MERGE_LEN THEN extend
             ELSE extend

\* the greedy accumulator, lines 236-273: the lines of one segment
RECURSIVE Accumulate(_, _, _, _, _, _)
Accumulate(chunks, buffer, finalLines, isChineseText, MAX_LINE_LEN, IDEAL_LEN) ==
    IF chunks = <<>> THEN (IF buffer # <<>> THEN Append(finalLines, buffer) ELSE finalLines)
    ELSE LET current      == Head(chunks)
             separator    == IF buffer # <<>> /\ ~isChineseText THEN <<" ">> ELSE <<>>
             predictedLen == Len(buffer) + Len(separator) + Len(current)
             flush        == Accumulate(Tail(chunks), current, Append(finalLines, buffer),
                                        isChineseText, MAX_LINE_LEN, IDEAL_LEN)
             extend       == Accumulate(Tail(chunks), buffer \o separator \o current, finalLines,
                                        isChineseText, MAX_LINE_LEN, IDEAL_LEN)
         IN  IF buffer = <<>>
             THEN Accumulate(Tail(chunks), current, finalLines,
                             isChineseText, MAX_LINE_LEN, IDEAL_LEN)
             ELSE IF ExceedsMax(predictedLen, MAX_LINE_LEN) THEN flush
             ELSE IF Len(buffer) < MIN_MERGE_LEN THEN extend
             ELSE IF EndsSentence(buffer) \/ Len(buffer) >= IDEAL_LEN THEN flush
             ELSE extend

\* lines 207-273
FinalLines(text) ==
    Accumulate(Tokenize(text), <<>>, <<>>, isChinese(text),
               IF isChinese(text) THEN CN_MAX ELSE DEFAULT_MAX,
               IF isChinese(text) THEN CN_IDEAL ELSE DEFAULT_IDEAL)

RECURSIVE SumLen(_)
SumLen(lines) == IF lines = <<>> THEN 0 ELSE Len(Head(lines)) + SumLen(Tail(lines))

RECURSIVE AssignTimes_Drift(_, _, _, _, _)
AssignTimes_Drift(seg, finalLines, i, runningStart, out) ==
    IF i > Len(finalLines) THEN out
    ELSE LET line    == finalLines[i]
             endTime == runningStart + ((seg.end - seg.start) * Len(line)) \div SumLen(finalLines)
         IN  AssignTimes_Drift(seg, finalLines, i + 1, endTime,
                               Append(out, [start |-> runningStart, end |-> endTime, text |-> line]))

\* lines 276-293; the quotient stands for the floating point product duration * ratio
RECURSIVE AssignTimes(_, _, _, _, _)
AssignTimes(seg, finalLines, i, runningStart, out) ==
    IF i > Len(finalLines) THEN out
    ELSE LET line         == finalLines[i]
             duration     == seg.end - seg.start
             totalLen     == SumLen(finalLines)
             lineDuration == IF totalLen > 0 THEN (duration * Len(line)) \div totalLen
                             ELSE duration \div Len(finalLines)
             endTime      == IF i = Len(finalLines) THEN seg.end
                             ELSE runningStart + lineDuration
         IN  AssignTimes(seg, finalLines, i + 1, endTime,
                         Append(out, [start |-> runningStart, end |-> endTime, text |-> line]))

\* lines 207-293: the lines of one segment
SegmentLines(seg) == AssignTimes(seg, FinalLines(seg.text), 1, seg.start, <<>>)

\* lines 206-294: the lines of all segments, before the global merge
RECURSIVE SplitSegments(_, _)
SplitSegments(segments, result) ==
    IF segments = <<>> THEN result
    ELSE SplitSegments(Tail(segments), result \o SegmentLines(Head(segments)))

\* a limit that takes the larger of the two classes' limits for a pair of different classes
MergeLimit_Permissive(currentText, nextText) ==
    IF isChinese(currentText) /\ isChinese(nextText) THEN CN_MAX ELSE DEFAULT_MAX

\* lines 304-305
MergeLimit(currentText, nextText) ==
    IF isChinese(currentText) \/ isChinese(nextText) THEN CN_MAX ELSE DEFAULT_MAX

\* a merge pass that goes on comparing the line it has just formed with the element
\* that follows
RECURSIVE GlobalMerge_Chain(_, _, _)
GlobalMerge_Chain(result, i, finalResult) ==
    IF i > Len(result) THEN finalResult
    ELSE LET current == result[i]
         IN  IF current.text = <<>> THEN GlobalMerge_Chain(result, i + 1, finalResult)
             ELSE IF i + 1 > Len(result)
                  THEN GlobalMerge_Chain(result, i + 1, Append(finalResult, current))
                  ELSE LET next      == result[i + 1]
                           separator == IF isChinese(current.text) \/ isChinese(next.text)
                                        THEN <<>> ELSE <<" ">>
                           mergedLen == Len(current.text) + Len(separator) + Len(next.text)
                           merged    == [current EXCEPT !.end = next.end,
                                                        !.text = @ \o separator \o next.text]
                       IN  IF mergedLen <= MergeLimit(current.text, next.text)
                              /\ ~EndsSentence(current.text)
                           THEN GlobalMerge_Chain([result EXCEPT ![i + 1] = merged], i + 1,
                                                  finalResult)
                           ELSE GlobalMerge_Chain(result, i + 1, Append(finalResult, current))

\* lines 297-317
RECURSIVE GlobalMerge(_, _, _)
GlobalMerge(result, i, finalResult) ==
    IF i > Len(result) THEN finalResult
    ELSE LET current == result[i]
         IN  IF current.text = <<>> THEN GlobalMerge(result, i + 1, finalResult)
             ELSE IF i + 1 > Len(result)
                  THEN GlobalMerge(result, i + 1, Append(finalResult, current))
                  ELSE LET next      == result[i + 1]
                           separator == IF isChinese(current.text) \/ isChinese(next.text)
                                        THEN <<>> ELSE <<" ">>
                           mergedLen == Len(current.text) + Len(separator) + Len(next.text)
                       IN  IF mergedLen <= MergeLimit(current.text, next.text)
                              /\ ~EndsSentence(current.text)
                           THEN GlobalMerge(result, i + 2,
                                    Append(finalResult,
                                           [current EXCEPT !.end = next.end,
                                                           !.text = @ \o separator \o next.text]))
                           ELSE GlobalMerge(result, i + 1, Append(finalResult, current))

smartSplit(segments) == GlobalMerge(SplitSegments(segments, <<>>), 1, <<>>)

\* the loads of FFmpeg that may be started, and the callers of loadFFmpeg
MaxLoads == 3
MaxCallers == 3
Loads == 1 .. MaxLoads
Callers == 1 .. MaxCallers

\* audioUtils.ts, lines 4-6: the module has been imported, loadFFmpeg not yet called
FfIdle ==
    /\ ffmpeg = 0
    /\ ffmpegLoaded = FALSE
    /\ ffmpegLoading = 0
    /\ loadPc = [p \in Loads |-> "none"]
    /\ loadValue = [p \in Loads |-> 0]
    /\ callerPc = [c \in Callers |-> "idle"]
    /\ callerPromise = [c \in Callers |-> 0]
    /\ callerGot = [c \in Callers |-> 0]
    /\ callerVia = [c \in Callers |-> "none"]
    /\ callerPre = [c \in Callers |-> "none"]

\* no poll has been issued, and nothing has been reported to onProgress
AppIdle ==
    /\ videoFile = TRUE
    /\ polls = 0
    /\ timers = 0
    /\ settles = 0
    /\ progress = -1
    /\ progressFell = FALSE
    /\ fullReports = 0

\* translateSegments, line 378
BATCH_SIZE == 5

\* the longest list given to translateSegments
MaxSegments == 16

\* the indices of the batches of the longest list
Batches == 0 .. ((MaxSegments + BATCH_SIZE - 1) \div BATCH_SIZE - 1)

\* translateSegments has not been called
TrIdle ==
    /\ trSegments = <<>>
    /\ translatedSegments = <<>>
    /\ trPc = "none"
    /\ trI = 0
    /\ batchPc = [b \in Batches |-> "none"]
    /\ trChunk = <<>>
    /\ trReturned = <<>>
    /\ trReplies = [b \in Batches |-> <<>>]
    /\ trOutOfOrder = FALSE

(***************************************************************************)
(* Initial state: a media file is selected, the mode is chosen, the app is *)
(* IDLE (App.processFile, lines 93-99).                                    *)
(***************************************************************************)
Init ==
    /\ status = "IDLE"
    /\ captions = <<>>
    /\ captionMode \in CaptionModes
    /\ hpPc = "idle"
    /\ gsPc = "none"
    /\ segmentCount = 0
    /\ completedCount = 0
    /\ allCaptions = <<>>
    /\ activeTasks = <<>>
    /\ awaited = {}
    /\ taskPc = [i \in Chunks |-> "none"]
    /\ taskNew = [i \in Chunks |-> <<>>]
    /\ taskFull = [i \in Chunks |-> <<>>]
    /\ taskStart = [i \in Chunks |-> 0]
    /\ gsCaptions = <<>>
    /\ currentStart = 0
    /\ segmentIndex = 0
    /\ emitKind = "none"
    /\ cause = "none"
    /\ ingested = [i \in Chunks |-> 0]
    /\ ingestOrder = <<>>
    /\ tasks = <<>>
    /\ pfPc = "none"
    /\ allSegments = <<>>
    /\ audioSegments = 0
    /\ batchStart = 0
    /\ tsPc = "none"
    /\ pollResponse = <<>>
    /\ splitInput = <<>>
    /\ splitOffset = 0
    /\ splitOutput = <<>>
    /\ TrIdle
    /\ FfIdle
    /\ AppIdle

\* onChunk as handleProcess passes it: setCaptions(streamedSegments)
onChunk(list, kind) ==
    /\ captions' = list
    /\ emitKind' = kind

NoEmit == UNCHANGED <<captions, emitKind>>

\* handleProcess after the awaited pipeline resolved (lines 194-200)
HandleProcessSucceeds ==
    /\ status' = "SUCCESS"
    /\ hpPc' = "done"

\* handleProcess, catch (lines 201-204)
HandleProcessFails ==
    /\ status' = "ERROR"
    /\ hpPc' = "done"

(***************************************************************************)
(* onProgress of generateCaptionsStream.  A step hands onProgress the      *)
(* progress fields of `values', in this order.  Only the calls the code    *)
(* makes in its own line of control are taken; the timer of lines 106-113, *)
(* the heartbeat of audioUtils.ts 71-74 and the 'progress' events of       *)
(* FFmpeg (audioUtils.ts 30-32, 93-96, 183-185) add calls in between.      *)
(***************************************************************************)
\* a value of the sequence is lower than the one reported before it
Fell(prev, values) ==
    \E k \in 1 .. Len(values) : values[k] < (IF k = 1 THEN prev ELSE values[k - 1])

CountFull(values) == Cardinality({k \in 1 .. Len(values) : values[k] = 100})

onProgress(values) ==
    /\ progress' = IF values = <<>> THEN progress ELSE values[Len(values)]
    /\ progressFell' = (progressFell \/ Fell(progress, values))
    /\ fullReports' = fullReports + CountFull(values)

NoProgress == UNCHANGED progVars

\* line 217: 5 + Math.round(p * 0.3); for the integers 0..100 the product in doubles
\* rounds as the exact one does, halves upwards
overallProgress(p) == 5 + (3 * p + 5) \div 10

\* what extractAudio reports: line 77 before its first await, then lines 80-127
ExtractStarts == <<5>>
ExtractGoesOn == <<15, 40, 92, 95, 98, 100>>

OverallOf(ps) == [k \in 1 .. Len(ps) |-> overallProgress(ps[k])]

\* segmentAudioStream: line 182 before its first await, then lines 187 and 191
SegmenterStarts == <<10>>
SegmenterLoaded(count) == IF count = 0 THEN <<60, 90>> ELSE <<>>

\* line 247: Math.min(99, Math.round((completedCount / (segmentCount || 1)) * 100))
TaskProgress(completed, count) ==
    LET n == IF count = 0 THEN 1 ELSE count
        r == (200 * completed + n) \div (2 * n)
    IN  IF r > 99 THEN 99 ELSE r

(***************************************************************************)
(* handleProcess up to generateCaptionsStream's first await                *)
(***************************************************************************)
\* lines 114-134: up to await checkServerHealth()
HandleProcess ==
    /\ hpPc = "idle"
    /\ videoFile
    /\ status = "IDLE"
    /\ status' = "PROCESSING"
    /\ captions' = <<>>
    /\ hpPc' = "health"
    /\ UNCHANGED <<captionMode, gsPc, segmentCount, completedCount, allCaptions, gsCaptions,
                   activeTasks, awaited, taskPc, taskNew, taskFull, taskStart, currentStart,
                   segmentIndex, emitKind, cause, ingested, ingestOrder>>
    /\ NoProgress
    /\ UNCHANGED restVars

\* checkServerHealth() answered false: generateCaptionsStream runs up to its first await
StartBrowser(fileKind) ==
    /\ hpPc = "health"
    /\ hpPc' = "browser"
    /\ gsPc' = CASE fileKind = "smallAudio" -> "small"
                 [] fileKind = "video"      -> "extract"
                 [] OTHER                   -> "segmenting"
    /\ UNCHANGED <<status, captions, captionMode, segmentCount, completedCount,
                   allCaptions, gsCaptions, activeTasks, awaited, taskPc, taskNew, taskFull, taskStart,
                   currentStart, segmentIndex, emitKind, cause, ingested, ingestOrder>>
    /\ onProgress(CASE fileKind = "smallAudio" -> <<20>>
                    [] fileKind = "video"      -> <<0, 5>> \o OverallOf(ExtractStarts)
                    [] OTHER                   -> <<0>> \o SegmenterStarts)
    /\ UNCHANGED restVars

(***************************************************************************)
(* generateCaptionsStream: small-file path (lines 97-167)                  *)
(***************************************************************************)
SmallTranscribed(whisperSegments) ==
    /\ gsPc = "small"
    /\ LET caps == SmallCaptions(whisperSegments)
       IN  /\ onChunk(caps, "small")
           /\ gsCaptions' = caps
           /\ IF captionMode # "Original" /\ Len(caps) > 0
              THEN /\ gsPc' = "smallTranslate"
                   /\ UNCHANGED <<status, hpPc>>
              ELSE /\ gsPc' = "resolved"
                   /\ HandleProcessSucceeds
    /\ UNCHANGED <<captionMode, segmentCount, completedCount, allCaptions,
                   activeTasks, awaited, taskPc, taskNew, taskFull, taskStart,
                   currentStart, segmentIndex, cause, ingested, ingestOrder>>
    /\ onProgress(<<90>> \o (IF captionMode # "Original"
                                  /\ Len(SmallCaptions(whisperSegments)) > 0
                               THEN <<70>> ELSE <<100>>))
    /\ UNCHANGED restVars

SmallTranscribeFails ==
    /\ gsPc = "small"
    /\ gsPc' = "rejected"
    /\ cause' = "stt"
    /\ HandleProcessFails
    /\ NoEmit
    /\ UNCHANGED <<captionMode, segmentCount, completedCount, allCaptions, gsCaptions,
                   activeTasks, awaited, taskPc, taskNew, taskFull, taskStart, currentStart,
                   segmentIndex, ingested, ingestOrder>>
    /\ NoProgress
    /\ UNCHANGED restVars

SmallTranslatedOk(reply) ==
    /\ gsPc = "smallTranslate"
    /\ onChunk(SmallTranslated(gsCaptions, translateSegments(gsCaptions, reply), captionMode),
               "smallTranslated")
    /\ gsPc' = "resolved"
    /\ HandleProcessSucceeds
    /\ UNCHANGED <<captionMode, segmentCount, completedCount, allCaptions, gsCaptions,
                   activeTasks, awaited, taskPc, taskNew, taskFull, taskStart, currentStart,
                   segmentIndex, cause, ingested, ingestOrder>>
    /\ onProgress(<<100>>)
    /\ UNCHANGED restVars

SmallTranslateFails ==
    /\ gsPc = "smallTranslate"
    /\ gsPc' = "rejected"
    /\ cause' = "translate"
    /\ HandleProcessFails
    /\ NoEmit
    /\ UNCHANGED <<captionMode, segmentCount, completedCount, allCaptions, gsCaptions,
                   activeTasks, awaited, taskPc, taskNew, taskFull, taskStart, currentStart,
                   segmentIndex, ingested, ingestOrder>>
    /\ NoProgress
    /\ UNCHANGED restVars

(***************************************************************************)
(* generateCaptionsStream: chunked path (lines 170-315)                    *)
(***************************************************************************)
\* extractAudio resolved (lines 216-225); segmentAudioStream starts loading
ExtractDone ==
    /\ gsPc = "extract"
    /\ gsPc' = "segmenting"
    /\ UNCHANGED <<status, captions, captionMode, hpPc, segmentCount,
                   completedCount, allCaptions, gsCaptions, activeTasks, awaited, taskPc,
                   taskNew, taskFull, taskStart, currentStart, segmentIndex, emitKind,
                   cause, ingested, ingestOrder>>
    /\ onProgress(OverallOf(ExtractGoesOn) \o SegmenterStarts)
    /\ UNCHANGED restVars

\* extractAudio rejected: catch, throw new Error (lines 226-229)
ExtractFails ==
    /\ gsPc = "extract"
    /\ gsPc' = "rejected"
    /\ cause' = "extract"
    /\ HandleProcessFails
    /\ NoEmit
    /\ UNCHANGED <<captionMode, segmentCount, completedCount, allCaptions,
                   gsCaptions, activeTasks, awaited, taskPc, taskNew, taskFull, taskStart,
                   currentStart, segmentIndex, ingested, ingestOrder>>
    /\ NoProgress
    /\ UNCHANGED restVars

SegmenterFails_Swallowed ==
    /\ gsPc = "segmenting"
    /\ cause' = "segmenter"
    /\ IF activeTasks = <<>>
       THEN /\ gsPc' = "resolved"
            /\ HandleProcessSucceeds
            /\ UNCHANGED awaited
       ELSE /\ gsPc' = "all"
            /\ awaited' = {activeTasks[k] : k \in 1 .. Len(activeTasks)}
            /\ UNCHANGED <<status, hpPc>>
    /\ NoEmit
    /\ UNCHANGED <<captionMode, segmentCount, completedCount, allCaptions,
                   gsCaptions, activeTasks, taskPc, taskNew, taskFull, taskStart,
                   currentStart, segmentIndex, ingested, ingestOrder>>
    /\ NoProgress
    /\ UNCHANGED restVars

\* an await of segmentAudioStream (loadFFmpeg, writeFile, exec, readFile, deleteFile)
\* rejects: the rejection passes through line 233 to handleProcess
SegmenterFails ==
    /\ gsPc = "segmenting"
    /\ gsPc' = "rejected"
    /\ cause' = "segmenter"
    /\ HandleProcessFails
    /\ NoEmit
    /\ UNCHANGED <<captionMode, segmentCount, completedCount, allCaptions,
                   gsCaptions, activeTasks, awaited, taskPc, taskNew, taskFull, taskStart,
                   currentStart, segmentIndex, ingested, ingestOrder>>
    /\ NoProgress
    /\ UNCHANGED restVars

PoolFull_Late(active) == Len(active) > MAX_CONCURRENT_TRANSCRIPTIONS

\* line 239
PoolFull(active) == Len(active) >= MAX_CONCURRENT_TRANSCRIPTIONS

RaceWon_Oldest(i) == gsPc = "race" /\ i = activeTasks[1]

\* Promise.race(activeTasks) of line 240 settles with the first of its tasks to settle
RaceWon(i) == gsPc = "race" /\ i \in awaited

\* Promise.all(activeTasks) of line 307 resolves once the last of its tasks settled
AllDone(i) == gsPc = "all" /\ \A j \in awaited \ {i} : Settled(taskPc[j])

\* onSegment once it is past the concurrency check: the task runs up to
\* await transcribeSegment (243-252), is pushed (288), onSegment returns and
\* segmentAudioStream steps to the next segment (audioUtils.ts 227-231)
StartTask(idx, active) ==
    /\ activeTasks' = Append(active, idx)
    /\ taskStart' = [taskStart EXCEPT ![idx] = currentStart]
    /\ currentStart' = currentStart + (maxDurationSec - overlapSec)
    /\ segmentIndex' = segmentIndex + 1

\* segmentAudioStream cut one more segment and calls onSegment (audioUtils.ts 197-225,
\* openaiService.ts 235-241)
SegmentProduced ==
    /\ gsPc = "segmenting"
    /\ segmentIndex < MaxChunks
    /\ segmentCount' = segmentCount + 1
    /\ IF PoolFull(activeTasks)
       THEN /\ gsPc' = "race"
            /\ awaited' = {activeTasks[k] : k \in 1 .. Len(activeTasks)}
            /\ UNCHANGED <<activeTasks, taskPc, taskStart, currentStart, segmentIndex>>
       ELSE /\ StartTask(segmentCount, activeTasks)
            /\ taskPc' = [taskPc EXCEPT ![segmentCount] = "stt"]
            /\ UNCHANGED <<gsPc, awaited>>
    /\ NoEmit
    /\ UNCHANGED <<status, captionMode, hpPc, completedCount, allCaptions,
                   gsCaptions, taskNew, taskFull, cause, ingested, ingestOrder>>
    /\ onProgress(SegmenterLoaded(segmentCount)
                  \o (IF PoolFull(activeTasks) THEN <<>>
                      ELSE <<TaskProgress(completedCount, segmentCount + 1)>>))
    /\ UNCHANGED restVars

\* the segment read is shorter than 1000 bytes: the loop ends, segmentAudioStream
\* resolves and generateCaptionsStream reaches await Promise.all(activeTasks) (307)
SegmenterEnds ==
    /\ gsPc = "segmenting"
    /\ IF activeTasks = <<>>
       THEN /\ gsPc' = "resolved"
            /\ HandleProcessSucceeds
            /\ UNCHANGED awaited
       ELSE /\ gsPc' = "all"
            /\ awaited' = {activeTasks[k] : k \in 1 .. Len(activeTasks)}
            /\ UNCHANGED <<status, hpPc>>
    /\ NoEmit
    /\ UNCHANGED <<captionMode, segmentCount, completedCount, allCaptions,
                   gsCaptions, activeTasks, taskPc, taskNew, taskFull, taskStart,
                   currentStart, segmentIndex, cause, ingested, ingestOrder>>
    /\ onProgress(SegmenterLoaded(segmentCount)
                  \o (IF activeTasks = <<>> THEN <<100>> ELSE <<>>))
    /\ UNCHANGED restVars

(***************************************************************************)
(* A chunk task settles with pc (its promise never rejects: lines 283-285). *)
(* The reactions run in the order they were registered on the promise:     *)
(* the finally callback of lines 290-293 removes the task first, then a    *)
(* pending Promise.race (240) resumes onSegment, or a pending Promise.all  *)
(* (307) that has no other task left resolves generateCaptionsStream,      *)
(* which resumes handleProcess.                                            *)
(***************************************************************************)
Settle(i, pc, completed) ==
    LET rest     == RemoveTask(activeTasks, i)
        idx      == segmentCount - 1
    IN  /\ onProgress(CASE RaceWon(i) -> <<TaskProgress(completed, segmentCount)>>
                        [] AllDone(i) -> <<100>>
                        [] OTHER      -> <<>>)
        /\ IF RaceWon(i)
           THEN /\ StartTask(idx, rest)
                /\ taskPc' = [taskPc EXCEPT ![i] = pc, ![idx] = "stt"]
                /\ gsPc' = "segmenting"
                /\ awaited' = {}
                /\ UNCHANGED <<status, hpPc>>
           ELSE /\ activeTasks' = rest
                /\ taskPc' = [taskPc EXCEPT ![i] = pc]
                /\ UNCHANGED <<taskStart, currentStart, segmentIndex>>
                /\ IF AllDone(i)
                   THEN /\ gsPc' = "resolved"
                        /\ awaited' = {}
                        /\ HandleProcessSucceeds
                   ELSE UNCHANGED <<gsPc, awaited, status, hpPc>>

sharedCaptions_OwnCopy(i) == taskFull[i]

\* the list line 186 appends to: allCaptions of line 177, one for all chunk tasks
sharedCaptions(i) == allCaptions

\* transcribeSegment resolved: lines 254-264, and 282 when nothing is to be translated
TaskTranscribed(i) ==
    /\ taskPc[i] = "stt"
    /\ LET whisperSegments == SttResult(i)
           newCaptions == NewCaptions(whisperSegments, taskStart[i])
           r == addAndSortCaptions(sharedCaptions(i), newCaptions)
       IN  /\ allCaptions' = r.all
           /\ onChunk(r.result, "ingest")
           /\ ingested' = [ingested EXCEPT ![i] = Len(newCaptions)]
           /\ ingestOrder' = Append(ingestOrder, i)
           /\ IF captionMode # "Original" /\ Len(newCaptions) > 0
              THEN /\ taskPc' = [taskPc EXCEPT ![i] = "translate"]
                   /\ taskNew' = [taskNew EXCEPT ![i] = newCaptions]
                   /\ taskFull' = [taskFull EXCEPT ![i] = r.result]
                   /\ UNCHANGED <<completedCount, activeTasks, awaited, gsPc, status, hpPc,
                                  taskStart, currentStart, segmentIndex>>
                   /\ NoProgress
              ELSE /\ completedCount' = completedCount + 1
                   /\ Settle(i, "done", completedCount + 1)
                   /\ UNCHANGED <<taskNew, taskFull>>
    /\ UNCHANGED <<captionMode, segmentCount, gsCaptions, cause>>
    /\ UNCHANGED restVars

TaskTranscribeFails_Rejects(i) ==
    /\ taskPc[i] = "stt"
    /\ taskPc' = [taskPc EXCEPT ![i] = "sttFailed"]
    /\ activeTasks' = RemoveTask(activeTasks, i)
    /\ gsPc' = "rejected"
    /\ awaited' = {}
    /\ cause' = "stt"
    /\ HandleProcessFails
    /\ NoEmit
    /\ UNCHANGED <<captionMode, segmentCount, completedCount, allCaptions,
                   gsCaptions, taskNew, taskFull, taskStart, currentStart, segmentIndex,
                   ingested, ingestOrder>>
    /\ NoProgress
    /\ UNCHANGED restVars

\* transcribeSegment rejected: catch (283-285)
TaskTranscribeFails(i) ==
    /\ taskPc[i] = "stt"
    /\ Settle(i, "sttFailed", completedCount)
    /\ NoEmit
    /\ UNCHANGED <<captionMode, segmentCount, completedCount, allCaptions,
                   gsCaptions, taskNew, taskFull, cause, ingested, ingestOrder>>
    /\ UNCHANGED restVars

\* translateSegments resolved: lines 268-282
TaskTranslated(i, reply) ==
    /\ taskPc[i] = "translate"
    /\ onChunk(finalBilingual(taskFull[i], translateSegments(taskNew[i], reply), captionMode),
               "translated")
    /\ completedCount' = completedCount + 1
    /\ Settle(i, "done", completedCount + 1)
    /\ UNCHANGED <<captionMode, segmentCount, allCaptions, gsCaptions, taskNew,
                   taskFull, cause, ingested, ingestOrder>>
    /\ UNCHANGED restVars

\* translateSegments rejected: catch (283-285)
TaskTranslateFails(i) ==
    /\ taskPc[i] = "translate"
    /\ Settle(i, "trFailed", completedCount)
    /\ NoEmit
    /\ UNCHANGED <<captionMode, segmentCount, completedCount, allCaptions,
                   gsCaptions, taskNew, taskFull, cause, ingested, ingestOrder>>
    /\ UNCHANGED restVars

(***************************************************************************)
(* Server pipeline (part_013): POST /api/transcribe, processFile,          *)
(* GET /api/task/:taskId; client: transcribeWithServer, pollTaskStatus     *)
(* (part_004).                                                             *)
(***************************************************************************)
MaxServerChunks == 4

concurrency == 3

Word(n, c) == [k \in 1 .. n |-> c]

SrvSentence == Word(12, "a") \o <<" ">> \o Word(20, "b") \o <<".">>
SrvLong     == Word(12, "a") \o <<" ">> \o Word(20, "b") \o <<" ">> \o Word(15, "c")

\* what the speech-to-text service answers for the server's chunk k (chunk-relative,
\* units of 0.1 ms); the second segment of chunk 0 is stamped past the chunk's 600 s
SrvSttResult(k) ==
    CASE k % 3 = 0 -> << [start |-> 10000, end |-> 50000, text |-> SrvSentence],
                         [start |-> 6005000, end |-> 6010000, text |-> <<"e", "h", ".">>] >>
      [] k % 3 = 1 -> << SegA, SegD >>
      [] OTHER     -> << [start |-> 0, end |-> 40000, text |-> <<" ">> \o SrvLong] >>

\* lines 172-176
SrvAdjusted(segments, startTimeOffset) ==
    [k \in 1 .. Len(segments) |->
        [start |-> segments[k].start + startTimeOffset * UnitsPerSec,
         end   |-> segments[k].end + startTimeOffset * UnitsPerSec,
         text  |-> trim(segments[k].text)]]

\* transcribeSegment (lines 154-181) once the service answered
SrvTranscribed(segments, startTimeOffset) == smartSplit(SrvAdjusted(segments, startTimeOffset))

\* allSegments.sort((a, b) => a.start - b.start), line 455
RECURSIVE SrvInsert(_, _)
SrvInsert(sorted, x) ==
    IF sorted = <<>> THEN <<x>>
    ELSE IF sorted[Len(sorted)].start - x.start <= 0
         THEN Append(sorted, x)
         ELSE Append(SrvInsert(SubSeq(sorted, 1, Len(sorted) - 1), x), sorted[Len(sorted)])

RECURSIVE SrvSort(_)
SrvSort(segs) ==
    IF segs = <<>> THEN <<>>
    ELSE SrvInsert(SrvSort(SubSeq(segs, 1, Len(segs) - 1)), segs[Len(segs)])

\* line 461: seg.start >= last.end - 0.5
SrvKeep(last, seg) == seg.start >= last.end - UnitsPerSec \div 2

\* lines 458-464
RECURSIVE SrvDedup(_, _)
SrvDedup(segs, uniqueSegments) ==
    IF segs = <<>> THEN uniqueSegments
    ELSE IF uniqueSegments = <<>> \/ SrvKeep(uniqueSegments[Len(uniqueSegments)], Head(segs))
         THEN SrvDedup(Tail(segs), Append(uniqueSegments, Head(segs)))
         ELSE SrvDedup(Tail(segs), uniqueSegments)

\* lines 467-472
SrvCaptions(uniqueSegments) ==
    [k \in 1 .. Len(uniqueSegments) |->
        [id        |-> k - 1,
         startTime |-> formatTimestamp(uniqueSegments[k].start),
         endTime   |-> formatTimestamp(uniqueSegments[k].end),
         text      |-> uniqueSegments[k].text]]

\* lines 455-477
Completed(task, segs) ==
    [task EXCEPT !.captions = SrvCaptions(SrvDedup(SrvSort(segs), <<>>)),
                 !.status = "completed", !.progress = 100, !.stage = "done"]

\* lines 481-484
Errored(task) == [task EXCEPT !.status = "error"]

\* a progress that leaves out the 40 the transcription stage starts from
BatchProgress_FromZero(i, n) == (2 * i * 50 + n) \div (2 * n)

\* Math.round((i / audioSegments.length) * 50)
BatchProgress(i, n) == 40 + (2 * i * 50 + n) \div (2 * n)

\* lines 412-452 up to the next await: the file is larger than 24 MB or not
SizeCheck(task, big) ==
    IF big THEN [task |-> [task EXCEPT !.stage = "splitting", !.progress = 35], pc |-> "split"]
    ELSE [task |-> [task EXCEPT !.stage = "transcribing", !.progress = 40], pc |-> "direct"]

\* transcribeWithServer up to await fetch(POST) (part_004 lines 29-50)
StartServer ==
    /\ hpPc = "health"
    /\ hpPc' = "server"
    /\ tsPc' = "upload"
    /\ UNCHANGED <<status, captions, captionMode, emitKind, cause, gsVars, sideVars,
                   tasks, pfPc, allSegments, audioSegments, batchStart, pollResponse>>

\* POST /api/transcribe (lines 366-389) and processFile up to its first await (394-450)
PostTranscribe(isVideo, big) ==
    /\ tsPc = "upload"
    /\ tasks = <<>>
    /\ LET task == [status |-> "processing", progress |-> 0, stage |-> "uploading",
                    captions |-> <<>>]
       IN  IF isVideo
           THEN /\ tasks' = <<[task EXCEPT !.stage = "extracting", !.progress = 10]>>
                /\ pfPc' = "extract"
           ELSE /\ tasks' = <<SizeCheck(task, big).task>>
                /\ pfPc' = SizeCheck(task, big).pc
    /\ tsPc' = "uploaded"
    /\ UNCHANGED <<status, captions, captionMode, hpPc, emitKind, cause, gsVars, sideVars,
                   allSegments, audioSegments, batchStart, pollResponse>>

\* the upload is refused or the request fails: transcribeWithServer throws
\* (part_004 lines 52-59), handleProcess catches
UploadFails ==
    /\ tsPc = "upload"
    /\ tsPc' = "settled"
    /\ cause' = "upload"
    /\ HandleProcessFails
    /\ UNCHANGED <<captions, captionMode, emitKind, gsVars, sideVars, tasks, pfPc,
                   allSegments, audioSegments, batchStart, pollResponse>>

\* transcribeWithServer reads the taskId and calls pollTaskStatus, which calls poll()
\* (part_004 lines 61-64, 90-92, 132): the first request is issued
UploadAnswered ==
    /\ tsPc = "uploaded"
    /\ tsPc' = "polling"
    /\ polls' = polls + 1
    /\ UNCHANGED <<status, captions, captionMode, hpPc, emitKind, cause, gsVars, aloneVars,
                   progVars, videoFile, timers, settles,
                   tasks, pfPc, allSegments, audioSegments, batchStart, pollResponse>>

\* processFile: extractAudio resolved (lines 406-450)
PfExtractDone(big) ==
    /\ pfPc = "extract"
    /\ LET r == SizeCheck([tasks[1] EXCEPT !.progress = 30], big)
       IN  /\ tasks' = <<r.task>>
           /\ pfPc' = r.pc
    /\ UNCHANGED <<status, captions, captionMode, hpPc, emitKind, cause, gsVars, sideVars,
                   allSegments, audioSegments, batchStart, tsPc, pollResponse>>

\* processFile: splitAudio resolved with n segments; the first batch is sent (425-435)
PfSplitDone(n) ==
    /\ pfPc = "split"
    /\ tasks' = <<[tasks[1] EXCEPT !.stage = "transcribing"]>>
    /\ audioSegments' = n
    /\ batchStart' = 0
    /\ pfPc' = "batch"
    /\ UNCHANGED <<status, captions, captionMode, hpPc, emitKind, cause, gsVars, sideVars,
                   allSegments, tsPc, pollResponse>>

\* splitAudio (lines 106-146): segment k starts at k * maxDuration
SrvChunkStart(k) == k * maxDurationSec

Min(a, b) == IF a < b THEN a ELSE b

\* results.forEach(segs => allSegments.push(...segs)) over the batch, in batch order
RECURSIVE BatchResults(_, _)
BatchResults(k, last) ==
    IF k > last THEN <<>>
    ELSE SrvTranscribed(SrvSttResult(k), SrvChunkStart(k)) \o BatchResults(k + 1, last)

\* processFile: Promise.all of a batch resolved (lines 433-441), and after the last
\* batch lines 444-477
PfBatchDone ==
    /\ pfPc = "batch"
    /\ LET segs == allSegments \o
                   BatchResults(batchStart, Min(batchStart + concurrency, audioSegments) - 1)
           task == [tasks[1] EXCEPT !.progress = BatchProgress(batchStart, audioSegments)]
       IN  /\ allSegments' = segs
           /\ batchStart' = batchStart + concurrency
           /\ IF batchStart + concurrency < audioSegments
              THEN /\ tasks' = <<task>>
                   /\ UNCHANGED pfPc
              ELSE /\ tasks' = <<Completed(task, segs)>>
                   /\ pfPc' = "done"
    /\ UNCHANGED <<status, captions, captionMode, hpPc, emitKind, cause, gsVars, sideVars,
                   audioSegments, tsPc, pollResponse>>

\* processFile: the single transcribeSegment of a small file resolved (450-477)
PfDirectDone(k) ==
    /\ pfPc = "direct"
    /\ LET segs == SrvTranscribed(SrvSttResult(k), 0)
       IN  /\ allSegments' = segs
           /\ tasks' = <<Completed([tasks[1] EXCEPT !.progress = 90], segs)>>
    /\ pfPc' = "done"
    /\ UNCHANGED <<status, captions, captionMode, hpPc, emitKind, cause, gsVars, sideVars,
                   audioSegments, batchStart, tsPc, pollResponse>>

\* a catch that hands out the lines of the batches transcribed before the failure
PfFails_Partial ==
    /\ pfPc \in {"extract", "split", "batch", "direct"}
    /\ tasks' = <<[Errored(tasks[1]) EXCEPT
                      !.captions = SrvCaptions(SrvDedup(SrvSort(allSegments), <<>>))]>>
    /\ pfPc' = "done"
    /\ UNCHANGED <<status, captions, captionMode, hpPc, emitKind, cause, gsVars, sideVars,
                   allSegments, audioSegments, batchStart, tsPc, pollResponse>>

\* processFile: the pending await rejected (catch, lines 481-484)
PfFails ==
    /\ pfPc \in {"extract", "split", "batch", "direct"}
    /\ tasks' = <<Errored(tasks[1])>>
    /\ pfPc' = "done"
    /\ UNCHANGED <<status, captions, captionMode, hpPc, emitKind, cause, gsVars, sideVars,
                   allSegments, audioSegments, batchStart, tsPc, pollResponse>>

\* GET /api/task/:taskId (lines 500-508): res.json(task)
GetTask ==
    /\ polls > 0
    /\ pollResponse = <<>>
    /\ pollResponse' = <<tasks[1]>>
    /\ UNCHANGED <<status, captions, captionMode, hpPc, emitKind, cause, gsVars, sideVars,
                   tasks, pfPc, allSegments, audioSegments, batchStart, tsPc>>

\* a poll that goes on polling whatever the status it read
ContinuePolling_Always(task) == TRUE

\* part_004 lines 110-126: the else branch, setTimeout(poll, 1000)
ContinuePolling(task) == task.status \notin {"completed", "error"}

\* pollTaskStatus: poll() after its two awaits (part_004 lines 93-126), and
\* handleProcess after transcribeWithServer settled (App.tsx 153-161, 194-204); a
\* call of resolve or reject on a promise that is settled has no effect
PollAnswered ==
    /\ polls > 0
    /\ pollResponse # <<>>
    /\ LET task == pollResponse[1]
       IN  /\ IF Len(task.captions) > 0 \/ task.status = "completed"
              THEN onChunk(task.captions, "server")
              ELSE NoEmit
           /\ timers' = IF ContinuePolling(task) THEN timers + 1 ELSE timers
           /\ CASE task.status = "completed" /\ settles = 0 ->
                     /\ tsPc' = "settled"
                     /\ settles' = settles + 1
                     /\ UNCHANGED cause
                     /\ IF captionMode # "Original" /\ Len(task.captions) > 0
                        THEN /\ hpPc' = "serverTranslate"
                             /\ UNCHANGED status
                        ELSE HandleProcessSucceeds
                [] task.status = "error" /\ settles = 0 ->
                     /\ tsPc' = "settled"
                     /\ settles' = settles + 1
                     /\ cause' = "server"
                     /\ HandleProcessFails
                [] task.status \in {"completed", "error"} /\ settles > 0 ->
                     /\ settles' = settles + 1
                     /\ UNCHANGED <<tsPc, status, hpPc, cause>>
                [] OTHER ->
                     /\ tsPc' = IF settles = 0 THEN "timer" ELSE tsPc
                     /\ UNCHANGED <<status, hpPc, cause, settles>>
    /\ polls' = polls - 1
    /\ pollResponse' = <<>>
    /\ UNCHANGED <<captionMode, gsVars, aloneVars, progVars, videoFile, tasks, pfPc,
                   allSegments, audioSegments, batchStart>>

\* setTimeout(poll, 1000) fires: poll() runs up to its fetch
PollTimer ==
    /\ timers > 0
    /\ timers' = timers - 1
    /\ polls' = polls + 1
    /\ tsPc' = IF settles = 0 THEN "polling" ELSE tsPc
    /\ UNCHANGED <<status, captions, captionMode, hpPc, emitKind, cause, gsVars, aloneVars,
                   progVars, videoFile, settles,
                   tasks, pfPc, allSegments, audioSegments, batchStart, pollResponse>>

\* fetch or response.json() rejects: catch, reject(error) (part_004 lines 127-129)
PollFails ==
    /\ polls > 0
    /\ polls' = polls - 1
    /\ settles' = settles + 1
    /\ pollResponse' = <<>>
    /\ IF settles = 0
       THEN /\ tsPc' = "settled"
            /\ cause' = "poll"
            /\ HandleProcessFails
       ELSE UNCHANGED <<tsPc, cause, status, hpPc>>
    /\ UNCHANGED <<captions, captionMode, emitKind, gsVars, aloneVars, progVars, videoFile,
                   timers, tasks, pfPc, allSegments, audioSegments, batchStart>>

\* handleProcess: translateSegments(lastSegments, ...) resolved (App.tsx 162-174, 194-200)
ServerTranslated(reply) ==
    /\ hpPc = "serverTranslate"
    /\ captions' = SmallTranslated(captions, translateSegments(captions, reply), captionMode)
    /\ emitKind' = "serverTranslated"
    /\ HandleProcessSucceeds
    /\ UNCHANGED <<captionMode, cause, gsVars, sideVars, serverVars>>

\* handleProcess: translateSegments rejected (App.tsx 201-204)
ServerTranslateFails ==
    /\ hpPc = "serverTranslate"
    /\ cause' = "translate"
    /\ HandleProcessFails
    /\ UNCHANGED <<captions, captionMode, emitKind, gsVars, sideVars, serverVars>>

Next ==
    \/ HandleProcess
    \/ \E fileKind \in FileKinds : StartBrowser(fileKind)
    \/ \E ws \in SttResults : SmallTranscribed(ws)
    \/ SmallTranscribeFails
    \/ \E reply \in TrReplies : SmallTranslatedOk(reply)
    \/ SmallTranslateFails
    \/ ExtractDone
    \/ ExtractFails
    \/ SegmenterFails
    \/ SegmentProduced
    \/ SegmenterEnds
    \/ \E i \in Chunks : TaskTranscribed(i)
    \/ \E i \in Chunks : TaskTranscribeFails(i)
    \/ \E i \in Chunks : TaskTranslated(i, TrReply(i))
    \/ \E i \in Chunks : TaskTranslateFails(i)
    \/ StartServer
    \/ \E isVideo \in BOOLEAN, big \in BOOLEAN : PostTranscribe(isVideo, big)
    \/ UploadFails
    \/ UploadAnswered
    \/ \E big \in BOOLEAN : PfExtractDone(big)
    \/ \E n \in 1 .. MaxServerChunks : PfSplitDone(n)
    \/ PfBatchDone
    \/ \E k \in 0 .. 2 : PfDirectDone(k)
    \/ PfFails
    \/ GetTask
    \/ PollAnswered
    \/ PollTimer
    \/ PollFails
    \/ \E reply \in TrReplies : ServerTranslated(reply)
    \/ ServerTranslateFails

Spec == Init /\ [][Next]_vars

(***************************************************************************)
(* The pipelines with the reset button, which is shown whatever the status *)
(* (components/ControlsPanel.tsx line 66, components/Header.tsx line 47).  *)
(***************************************************************************)
\* handleReset (App.tsx lines 241-248).  A run in progress goes on with the mode it
\* was started with: handleProcess reads captionMode from the render it was called in.
HandleReset ==
    /\ videoFile
    /\ videoFile' = FALSE
    /\ captions' = <<>>
    /\ status' = "IDLE"
    /\ captionMode' = IF hpPc = "idle" THEN "Original" ELSE captionMode
    /\ UNCHANGED <<hpPc, emitKind, cause, gsVars, serverVars, aloneVars, pollVars, progVars>>

NextReset == Next \/ HandleReset

SpecReset == Init /\ [][NextReset]_vars

\* the server answers a request that does not fail, and the event loop runs the
\* continuation of an answered fetch and a timer that is due
SpecPoll ==
    /\ Init /\ [][Next]_vars
    /\ WF_vars(GetTask)
    /\ WF_vars(PollAnswered)
    /\ WF_vars(PollTimer)

(***************************************************************************)
(* smartSplit on its own, over bounded texts.                              *)
(***************************************************************************)
MaxWords == 3

ABSOLUTE_MAX == 38

SplitWordSet ==
    { Word(3, "a"), Word(9, "b") \o <<".">>, Word(12, "c"), Word(29, "d"), Word(30, "f"),
      Word(43, "e") }

\* the texts of 1 .. n words, joined by one space
RECURSIVE TextsOf(_)
TextsOf(n) ==
    IF n = 1 THEN SplitWordSet
    ELSE LET shorter == TextsOf(n - 1)
         IN  shorter \cup
             {t \o <<" ">> \o w : t \in {x \in shorter : Len(SplitWords(x)) = n - 1},
                                  w \in SplitWordSet}

Seg(start, end, text) == [start |-> start, end |-> end, text |-> text]

Zh(n) == Word(n, "Zh")

\* responses of several segments, dense-script and mixed text, blank text
SplitResponses ==
    { << Seg(0, 10000, Word(3, "a")), Seg(10000, 20000, Word(3, "b")),
         Seg(20000, 30007, Word(3, "c")) >>,
      << Seg(0, 10000, Zh(3)), Seg(10000, 20000, Word(5, "a") \o <<" ">> \o Word(3, "b")) >>,
      << Seg(0, 10000, Zh(3)), Seg(10000, 20000, Word(12, "c")) >>,
      << Seg(0, 10000, Word(12, "c")), Seg(10000, 20000, Zh(3)) >>,
      << Seg(0, 10000, Zh(7)), Seg(10000, 20000, Zh(6)) >>,
      << Seg(5000, 10000, <<" ">>), Seg(10000, 20000, <<" ">> \o Word(3, "a") \o <<" ">>) >>,
      << Seg(0, 10000, <<>>) >>,
      << Seg(1000, 50001, Zh(5) \o <<"Z,">> \o Zh(8) \o <<"Z.">> \o Zh(4)) >>,
      << Seg(0, 30000, Zh(4) \o <<"Z,">> \o Zh(4) \o <<"Z,">> \o Zh(2) \o <<"Z.">> \o Zh(3)) >>,
      << Seg(0, 30000, <<"Z,">> \o Zh(6) \o <<",">> \o <<" ">> \o Word(2, "a") \o Zh(9)) >>,
      << Seg(0, 30000, Zh(14) \o <<"Z?">> \o Zh(2)) >>,
      << Seg(0, 80000, Word(3, "a") \o <<" ">> \o Word(9, "b") \o <<".", " ">> \o Word(12, "c")
                          \o <<" ">> \o Word(3, "a") \o <<" ">> \o Word(29, "d")) >>,
      << Seg(0, 50000, <<"a", "a", ".", " ">> \o Word(3, "b") \o <<" ">> \o Word(43, "e")) >> }

SplitInputs ==
    { <<Seg(0, 40000, t)>> : t \in TextsOf(MaxWords) } \cup SplitResponses

\* splitAudio starts its chunks at multiples of 600 s
SplitOffsets == {0, 600}

InitSplit ==
    /\ status = "IDLE"
    /\ captions = <<>>
    /\ captionMode = "Original"
    /\ hpPc = "idle"
    /\ emitKind = "none"
    /\ cause = "none"
    /\ gsPc = "none"
    /\ segmentCount = 0
    /\ completedCount = 0
    /\ allCaptions = <<>>
    /\ activeTasks = <<>>
    /\ awaited = {}
    /\ taskPc = [i \in Chunks |-> "none"]
    /\ taskNew = [i \in Chunks |-> <<>>]
    /\ taskFull = [i \in Chunks |-> <<>>]
    /\ taskStart = [i \in Chunks |-> 0]
    /\ gsCaptions = <<>>
    /\ currentStart = 0
    /\ segmentIndex = 0
    /\ ingested = [i \in Chunks |-> 0]
    /\ ingestOrder = <<>>
    /\ tasks = <<>>
    /\ pfPc = "none"
    /\ allSegments = <<>>
    /\ audioSegments = 0
    /\ batchStart = 0
    /\ tsPc = "none"
    /\ pollResponse = <<>>
    /\ splitInput \in SplitInputs
    /\ splitOffset \in SplitOffsets
    /\ splitOutput = <<>>
    /\ TrIdle
    /\ FfIdle
    /\ AppIdle

\* transcribeSegment, lines 172-180: the segments given to smartSplit, the tokens and
\* the lines of each segment, all lines before the global merge, and the lines returned
CallSmartSplit ==
    /\ splitOutput = <<>>
    /\ LET segments == SrvAdjusted(splitInput, splitOffset)
       IN  splitOutput' = <<[segments  |-> segments,
                             chunks    |-> [k \in 1 .. Len(segments) |->
                                               Tokenize(segments[k].text)],
                             bySegment |-> [k \in 1 .. Len(segments) |->
                                               SegmentLines(segments[k])],
                             lines     |-> SplitSegments(segments, <<>>),
                             final     |-> SrvTranscribed(splitInput, splitOffset)]>>
    /\ UNCHANGED <<appVars, splitInput, splitOffset, trVars, ffVars>>

NextSplit == CallSmartSplit

SpecSplit == InitSplit /\ [][NextSplit]_vars

(***************************************************************************)
(* translateSegments (services/openaiService.ts, lines 349-442) on its own *)
(***************************************************************************)
\* the lengths of the lists given to translateSegments
TrLengths == {0, 1, 5, 6, 11, MaxSegments}

\* a list of n caption lines
TrCaptions(n) ==
    [k \in 1 .. n |->
        [id        |-> k - 1,
         startTime |-> formatTimestamp((k - 1) * 2 * UnitsPerSec),
         endTime   |-> formatTimestamp((2 * k - 1) * UnitsPerSec + 5000),
         text      |-> Word(1 + (k % 3), "a")]]

TrInputs == {TrCaptions(n) : n \in TrLengths}

\* line 379
totalBatches == (Len(trSegments) + BATCH_SIZE - 1) \div BATCH_SIZE

\* lines 382-384
BatchStartIndex(batchIndex) == batchIndex * BATCH_SIZE
BatchEndIndex(batchIndex) == Min(BatchStartIndex(batchIndex) + BATCH_SIZE, Len(trSegments))
BatchOf(batchIndex) ==
    SubSeq(trSegments, BatchStartIndex(batchIndex) + 1, BatchEndIndex(batchIndex))

\* what the service may put in "translations" for a batch: an entry for every block,
\* last block first and with a second entry for block 0; entries for the blocks of
\* even id only; nothing
TrReplyKinds == {"all", "even", "none"}

ReplyEntry(batch, id) ==
    [id |-> id, text |-> <<" ">> \o TranslatedText(batch[id + 1].text) \o <<" ">>]

RECURSIVE EntriesDown(_, _)
EntriesDown(batch, n) ==
    IF n = 0 THEN <<>> ELSE <<ReplyEntry(batch, n - 1)>> \o EntriesDown(batch, n - 1)

RECURSIVE EntriesEven(_, _)
EntriesEven(batch, n) ==
    IF n = 0 THEN <<>>
    ELSE EntriesEven(batch, n - 1) \o
         (IF (n - 1) % 2 = 0 THEN <<ReplyEntry(batch, n - 1)>> ELSE <<>>)

Translations(batch, kind) ==
    CASE kind = "all"  -> EntriesDown(batch, Len(batch)) \o <<[id |-> 0, text |-> <<"?">>]>>
      [] kind = "even" -> EntriesEven(batch, Len(batch))
      [] OTHER         -> <<>>

\* translations.find(r => r.id === i), line 417: the first entry of that id, 0 if none
FindMatch(translations, i) ==
    IF \E j \in 1 .. Len(translations) : translations[j].id = i
    THEN CHOOSE j \in 1 .. Len(translations) :
            /\ translations[j].id = i
            /\ \A h \in 1 .. j - 1 : translations[h].id # i
    ELSE 0

\* line 418
translatedText(translations, seg, i) ==
    IF FindMatch(translations, i) # 0
    THEN trim(translations[FindMatch(translations, i)].text)
    ELSE seg.text

\* an index that forgets where the batch starts
globalIndex_Local(start, i) == i

\* line 420
globalIndex(start, i) == start + i

\* batch.forEach, lines 416-425: the list after the batch's blocks have been written
RECURSIVE WriteBatch(_, _, _, _, _)
WriteBatch(list, batch, translations, start, i) ==
    IF i >= Len(batch) THEN list
    ELSE WriteBatch([list EXCEPT ![globalIndex(start, i) + 1] =
                        [batch[i + 1] EXCEPT !.text = translatedText(translations, batch[i + 1], i)]],
                    batch, translations, start, i + 1)

\* await Promise.all(tasks), line 440, with the promises in the states bp
AwaitAll(bp) ==
    IF \E b \in Batches : bp[b] = "failed" THEN "rejected"
    ELSE IF \A b \in Batches : bp[b] \in {"none", "done"} THEN "resolved"
    ELSE "all"

InitTranslate ==
    /\ status = "IDLE"
    /\ captions = <<>>
    /\ captionMode = "Original"
    /\ hpPc = "idle"
    /\ emitKind = "none"
    /\ cause = "none"
    /\ gsPc = "none"
    /\ segmentCount = 0
    /\ completedCount = 0
    /\ allCaptions = <<>>
    /\ activeTasks = <<>>
    /\ awaited = {}
    /\ taskPc = [i \in Chunks |-> "none"]
    /\ taskNew = [i \in Chunks |-> <<>>]
    /\ taskFull = [i \in Chunks |-> <<>>]
    /\ taskStart = [i \in Chunks |-> 0]
    /\ gsCaptions = <<>>
    /\ currentStart = 0
    /\ segmentIndex = 0
    /\ ingested = [i \in Chunks |-> 0]
    /\ ingestOrder = <<>>
    /\ tasks = <<>>
    /\ pfPc = "none"
    /\ allSegments = <<>>
    /\ audioSegments = 0
    /\ batchStart = 0
    /\ tsPc = "none"
    /\ pollResponse = <<>>
    /\ splitInput = <<>>
    /\ splitOffset = 0
    /\ splitOutput = <<>>
    /\ trSegments \in TrInputs
    /\ translatedSegments = <<>>
    /\ trPc = "none"
    /\ trI = 0
    /\ batchPc = [b \in Batches |-> "none"]
    /\ trChunk = <<>>
    /\ trReturned = <<>>
    /\ trReplies = [b \in Batches |-> <<>>]
    /\ trOutOfOrder = FALSE
    /\ FfIdle
    /\ AppIdle

\* lines 357-379: an empty list is returned at once, otherwise the list is copied
CallTranslate ==
    /\ trPc = "none"
    /\ IF Len(trSegments) = 0
       THEN /\ trPc' = "resolved"
            /\ translatedSegments' = translatedSegments
       ELSE /\ trPc' = "launch"
            /\ translatedSegments' = trSegments
    /\ UNCHANGED <<appVars, splitVars, ffVars, trSegments, trI, batchPc, trChunk, trReturned,
                   trReplies, trOutOfOrder>>

\* the loop has pushed the promise of batch i: it goes on to the next batch, or to
\* Promise.all when there is none (lines 435-441)
LoopStep(bp) ==
    IF trI + 1 < totalBatches
    THEN /\ trPc' = "launch"
         /\ trReturned' = trReturned
    ELSE /\ trPc' = AwaitAll(bp)
         /\ trReturned' = IF AwaitAll(bp) = "resolved" THEN translatedSegments ELSE trReturned

\* lines 436-437: translateBatch(i) runs to its await and its promise is pushed; after
\* every third batch the loop waits for a timer
LaunchBatch ==
    /\ trPc = "launch"
    /\ batchPc' = [batchPc EXCEPT ![trI] = "pending"]
    /\ IF trI % 3 = 0
       THEN /\ trPc' = "timer"
            /\ UNCHANGED <<trI, trReturned>>
       ELSE /\ LoopStep(batchPc')
            /\ trI' = trI + 1
    /\ UNCHANGED <<appVars, splitVars, ffVars, trSegments, translatedSegments, trChunk, trReplies,
                   trOutOfOrder>>

\* line 437: the timer of 100 ms fires
TimerFires ==
    /\ trPc = "timer"
    /\ LoopStep(batchPc)
    /\ trI' = trI + 1
    /\ UNCHANGED <<appVars, splitVars, ffVars, trSegments, translatedSegments, batchPc, trChunk,
                   trReplies, trOutOfOrder>>

\* lines 412-427: the reply of batch b arrives, its blocks are written, onChunk gets
\* a copy of the list, and a pending Promise.all of which it was the last resolves
BatchReplies(b, kind) ==
    /\ batchPc[b] = "pending"
    /\ LET translations == Translations(BatchOf(b), kind)
           written      == WriteBatch(translatedSegments, BatchOf(b), translations,
                                      BatchStartIndex(b), 0)
           bp           == [batchPc EXCEPT ![b] = "done"]
       IN  /\ translatedSegments' = written
           /\ trChunk' = written
           /\ batchPc' = bp
           /\ trReplies' = [trReplies EXCEPT ![b] = translations]
           /\ trOutOfOrder' = (trOutOfOrder \/ \E a \in Batches : a < b /\ batchPc[a] = "pending")
           /\ IF trPc = "all"
              THEN /\ trPc' = AwaitAll(bp)
                   /\ trReturned' = IF AwaitAll(bp) = "resolved" THEN written ELSE trReturned
              ELSE UNCHANGED <<trPc, trReturned>>
    /\ UNCHANGED <<appVars, splitVars, ffVars, trSegments, trI>>

\* lines 390-431: the request of batch b fails, or its reply cannot be read; the
\* promise of the batch rejects and so does a pending Promise.all
BatchFails(b) ==
    /\ batchPc[b] = "pending"
    /\ batchPc' = [batchPc EXCEPT ![b] = "failed"]
    /\ trPc' = IF trPc = "all" THEN "rejected" ELSE trPc
    /\ UNCHANGED <<appVars, splitVars, ffVars, trSegments, translatedSegments, trI, trChunk,
                   trReturned, trReplies, trOutOfOrder>>

NextTranslate ==
    \/ CallTranslate
    \/ LaunchBatch
    \/ TimerFires
    \/ \E b \in Batches, kind \in TrReplyKinds : BatchReplies(b, kind)
    \/ \E b \in Batches : BatchFails(b)

SpecTranslate == InitTranslate /\ [][NextTranslate]_vars

(***************************************************************************)
(* loadFFmpeg (utils/audioUtils.ts, lines 11-55) and its callers           *)
(***************************************************************************)
\* the state of the load started last, "idle" when none was
LatestLoad == IF ffmpeg = 0 THEN "idle" ELSE loadPc[ffmpeg]

InitFFmpeg ==
    /\ status = "IDLE"
    /\ captions = <<>>
    /\ captionMode = "Original"
    /\ hpPc = "idle"
    /\ emitKind = "none"
    /\ cause = "none"
    /\ gsPc = "none"
    /\ segmentCount = 0
    /\ completedCount = 0
    /\ allCaptions = <<>>
    /\ activeTasks = <<>>
    /\ awaited = {}
    /\ taskPc = [i \in Chunks |-> "none"]
    /\ taskNew = [i \in Chunks |-> <<>>]
    /\ taskFull = [i \in Chunks |-> <<>>]
    /\ taskStart = [i \in Chunks |-> 0]
    /\ gsCaptions = <<>>
    /\ currentStart = 0
    /\ segmentIndex = 0
    /\ ingested = [i \in Chunks |-> 0]
    /\ ingestOrder = <<>>
    /\ tasks = <<>>
    /\ pfPc = "none"
    /\ allSegments = <<>>
    /\ audioSegments = 0
    /\ batchStart = 0
    /\ tsPc = "none"
    /\ pollResponse = <<>>
    /\ splitInput = <<>>
    /\ splitOffset = 0
    /\ splitOutput = <<>>
    /\ TrIdle
    /\ FfIdle
    /\ AppIdle

\* lines 13-15: loaded, the call returns the instance
ReturnsLoaded(c) ==
    /\ ffmpeg # 0 /\ ffmpegLoaded
    /\ callerPc' = [callerPc EXCEPT ![c] = "got"]
    /\ callerGot' = [callerGot EXCEPT ![c] = ffmpeg]
    /\ callerVia' = [callerVia EXCEPT ![c] = "loaded"]
    /\ UNCHANGED <<ffmpeg, ffmpegLoaded, ffmpegLoading, loadPc, loadValue, callerPromise>>

\* lines 18-20: a promise is stored, the call returns it and the caller awaits it
ReturnsLoading(c) ==
    /\ ~(ffmpeg # 0 /\ ffmpegLoaded)
    /\ ffmpegLoading # 0
    /\ callerPromise' = [callerPromise EXCEPT ![c] = ffmpegLoading]
    /\ callerPc' = [callerPc EXCEPT ![c] =
                        CASE loadPc[ffmpegLoading] = "resolved" -> "got"
                          [] loadPc[ffmpegLoading] = "rejected" -> "failed"
                          [] OTHER -> "waiting"]
    /\ callerGot' = [callerGot EXCEPT ![c] =
                        IF loadPc[ffmpegLoading] = "resolved" THEN loadValue[ffmpegLoading]
                        ELSE @]
    /\ callerVia' = [callerVia EXCEPT ![c] = "shared"]
    /\ UNCHANGED <<ffmpeg, ffmpegLoaded, ffmpegLoading, loadPc, loadValue>>

\* lines 22-40 and 54: a new instance is made, its load starts and runs to its first
\* await, the promise of the load is stored and returned
StartsLoad(c) ==
    /\ ~(ffmpeg # 0 /\ ffmpegLoaded)
    /\ ffmpegLoading = 0
    /\ ffmpeg < MaxLoads
    /\ ffmpeg' = ffmpeg + 1
    /\ ffmpegLoading' = ffmpeg + 1
    /\ loadPc' = [loadPc EXCEPT ![ffmpeg + 1] = "pending"]
    /\ callerPromise' = [callerPromise EXCEPT ![c] = ffmpeg + 1]
    /\ callerPc' = [callerPc EXCEPT ![c] = "waiting"]
    /\ callerVia' = [callerVia EXCEPT ![c] = "fresh"]
    /\ UNCHANGED <<ffmpegLoaded, loadValue, callerGot>>

\* a caller (extractAudio at line 78, segmentAudioStream at line 183) that is not
\* waiting calls loadFFmpeg and awaits what it returns
CallLoad(c) ==
    /\ callerPc[c] # "waiting"
    /\ callerPre' = [callerPre EXCEPT ![c] = LatestLoad]
    /\ \/ ReturnsLoaded(c)
       \/ ReturnsLoading(c)
       \/ StartsLoad(c)
    /\ UNCHANGED <<appVars, splitVars, trVars>>

\* the callers waiting for load p get what its promise settled with
Delivered(p, pc) == [c \in Callers |-> IF callerPc[c] = "waiting" /\ callerPromise[c] = p
                                       THEN pc ELSE callerPc[c]]

\* lines 39-46: ffmpeg.load has resolved
LoadSucceeds(p) ==
    /\ loadPc[p] = "pending"
    /\ ffmpegLoaded' = TRUE
    /\ loadPc' = [loadPc EXCEPT ![p] = "resolved"]
    /\ loadValue' = [loadValue EXCEPT ![p] = ffmpeg]
    /\ callerPc' = Delivered(p, "got")
    /\ callerGot' = [c \in Callers |-> IF callerPc[c] = "waiting" /\ callerPromise[c] = p
                                        THEN ffmpeg ELSE callerGot[c]]
    /\ UNCHANGED <<appVars, splitVars, trVars, ffmpeg, ffmpegLoading, callerPromise, callerVia,
                   callerPre>>

\* a failed load that leaves its promise in ffmpegLoading
LoadFails_KeepsPromise(p) ==
    /\ loadPc[p] = "pending"
    /\ loadPc' = [loadPc EXCEPT ![p] = "rejected"]
    /\ callerPc' = Delivered(p, "failed")
    /\ UNCHANGED <<appVars, splitVars, trVars, ffmpeg, ffmpegLoaded, ffmpegLoading, loadValue,
                   callerPromise, callerGot, callerVia, callerPre>>

\* lines 47-51: toBlobURL or ffmpeg.load has rejected
LoadFails(p) ==
    /\ loadPc[p] = "pending"
    /\ ffmpegLoading' = 0
    /\ loadPc' = [loadPc EXCEPT ![p] = "rejected"]
    /\ callerPc' = Delivered(p, "failed")
    /\ UNCHANGED <<appVars, splitVars, trVars, ffmpeg, ffmpegLoaded, loadValue, callerPromise,
                   callerGot, callerVia, callerPre>>

NextFFmpeg ==
    \/ \E c \in Callers : CallLoad(c)
    \/ \E p \in Loads : LoadSucceeds(p)
    \/ \E p \in Loads : LoadFails(p)

SpecFFmpeg == InitFFmpeg /\ [][NextFFmpeg]_vars

(***************************************************************************)
(* Properties                                                              *)
(***************************************************************************)
InFlight == {i \in Chunks : taskPc[i] \in {"stt", "translate"}}

\* C1: during the chunked path at most MAX_CONCURRENT_TRANSCRIPTIONS (3) chunk tasks
\* are started and not yet settled, whatever the order of completions and failures
C1_BoundedConcurrency == Cardinality(InFlight) <= 3

C1_Witness ==
    /\ InFlight = {1, 2, 3}
    /\ taskPc[0] = "sttFailed"

SortedByStart(list) ==
    \A i, j \in 1 .. Len(list) :
        i < j => parseTimestamp(list[i].startTime) <= parseTimestamp(list[j].startTime)

\* the last call of the sink came from the assembler: addAndSortCaptions, the
\* re-emission after a chunk's translation, or the server's task.captions
AssemblerEmission == emitKind \in {"ingest", "translated", "server"}

ServerCaptions == IF tasks = <<>> THEN <<>> ELSE tasks[1].captions

\* C2: every list the assembler hands to the sink (onChunk in the browser pipeline,
\* task.captions in the server pipeline) is sorted ascending by start time
C2_SortInvariant ==
    /\ AssemblerEmission => SortedByStart(captions)
    /\ SortedByStart(ServerCaptions)

\* chunk 1 was ingested before chunk 0, and the list has lines of both
C2_Witness ==
    /\ emitKind = "ingest"
    /\ Len(ingestOrder) >= 2
    /\ ingestOrder[1] = 1
    /\ ingestOrder[2] = 0
    /\ Len(captions) >= 3

NoOverlap(list) ==
    \A i \in 1 .. Len(list) - 1 :
        parseTimestamp(list[i + 1].startTime) >= parseTimestamp(list[i].endTime) - 500

IdsContiguous(list) == \A i \in 1 .. Len(list) : list[i].id = i - 1

\* C4: in every list given to the sink the ids are 0..N-1 in list order, also after
\* a chunk's translation and on the small-file path
C4_IdContiguity ==
    /\ IdsContiguous(captions)
    /\ IdsContiguous(ServerCaptions)

C4_Witness ==
    /\ emitKind = "translated"
    /\ Len(captions) >= 3
    /\ Len(captions) < Len(allCaptions)

\* the shared list after the chunks of order have been ingested one after another
RECURSIVE SequentialAll(_)
SequentialAll(order) ==
    IF order = <<>> THEN <<>>
    ELSE LET i == order[Len(order)]
         IN  SortByStart(SequentialAll(SubSeq(order, 1, Len(order) - 1))
                         \o NewCaptions(SttResult(i), ChunkStart(i)))

\* C5: the chunk tasks' calls of addAndSortCaptions act on the shared list one after
\* another: the shared list, and the list emitted by the last call, are those of
\* ingesting the chunks sequentially in completion order
C5_SerializedIngest ==
    /\ allCaptions = SequentialAll(ingestOrder)
    /\ emitKind = "ingest" => captions = Renumber(Dedup(SequentialAll(ingestOrder), <<>>))

\* three tasks were in flight together and were ingested out of submission order
C5_Witness ==
    /\ Len(ingestOrder) >= 3
    /\ ingestOrder[1] = 2
    /\ ingestOrder[2] = 1
    /\ ingestOrder[3] = 0
    /\ emitKind = "ingest"

\* C6: a chunk whose speech-to-text call failed adds no line; the chunks after it are
\* still dispatched; the run is rejected only by the audio steps, and a run that
\* resolved left the app in SUCCESS
C6_ChunkFailureAbsorbed ==
    /\ \A i \in Chunks : taskPc[i] = "sttFailed" =>
            /\ ingested[i] = 0
            /\ \A k \in 1 .. Len(ingestOrder) : ingestOrder[k] # i
    /\ \A i \in Chunks : i < segmentCount =>
            taskPc[i] # "none" \/ (gsPc = "race" /\ i = segmentCount - 1)
    /\ (gsPc = "rejected" /\ segmentCount > 0) => cause = "segmenter"
    /\ gsPc = "resolved" => status = "SUCCESS"

\* chunk 0 failed, chunk 3 was dispatched and transcribed after it, the run succeeded
C6_Witness ==
    /\ taskPc[0] = "sttFailed"
    /\ taskPc[3] = "done"
    /\ ingested[3] > 0
    /\ gsPc = "resolved"
    /\ status = "SUCCESS"

\* C7: the promise of generateCaptionsStream settles only after every chunk task it
\* started has completed or failed
C7_SettlesAfterTasks == gsPc \in {"resolved", "rejected"} => InFlight = {}

\* C8: when extractAudio or segmentAudioStream fails, generateCaptionsStream rejects
\* and the app is in ERROR, never SUCCESS, however many chunks were transcribed
C8_SegmenterFailureFatal ==
    cause \in {"extract", "segmenter"} => (gsPc = "rejected" /\ status = "ERROR")

\* the segmenter failed after two chunks, both of which have been transcribed since
C8_Witness ==
    /\ cause = "segmenter"
    /\ segmentCount = 2
    /\ completedCount = 2
    /\ InFlight = {}

\* C9: with three tasks in flight the next chunk is not started before one of them
\* settles, and it is started in the very step in which any one of them settles;
\* chunks are started in ascending index order
C9_RaceAdmission ==
    /\ [](gsPc = "race" =>
            /\ Cardinality(awaited) = 3
            /\ awaited = InFlight
            /\ taskPc[segmentCount - 1] = "none")
    /\ [](\A i, j \in Chunks : (i < j /\ taskPc[j] # "none") => taskPc[i] # "none")
    /\ [][gsPc = "race" =>
            ((\E j \in awaited : Settled(taskPc'[j]))
                <=> (taskPc'[segmentCount - 1] = "stt" /\ gsPc' = "segmenting"))]_vars

\* chunk 3 was admitted while chunk 0, the oldest, is still being transcribed
C9_Witness ==
    /\ taskPc[3] = "stt"
    /\ taskPc[0] = "stt"
    /\ Settled(taskPc[1])
    /\ taskPc[2] \in {"stt", "translate"}

TokenCount(text) == Len(SplitWords(text))

SplitDone == splitOutput # <<>>

\* the segment of the service's response that became segment k of smartSplit
ResponseSegment(k) == splitInput[k]

SplitShift == splitOffset * UnitsPerSec

TextLen(lines) == SumLen([n \in 1 .. Len(lines) |-> lines[n].text])

NoEmptyText(list) == \A i \in 1 .. Len(list) : list[i].text # <<>>

\* C12: no line of a list given to the sink has empty text, in the browser pipeline
\* and in the server pipeline
C12_NoEmptyText ==
    /\ NoEmptyText(captions)
    /\ NoEmptyText(ServerCaptions)

\* the lines of the server's chunks 0 .. n - 1 as lines 206-294 make them, before any
\* merge pass, in chunk order
RECURSIVE UnmergedLines(_)
UnmergedLines(n) ==
    IF n = 0 THEN <<>>
    ELSE UnmergedLines(n - 1) \o
         SplitSegments(SrvAdjusted(SrvSttResult(n - 1), SrvChunkStart(n - 1)), <<>>)

\* one merge pass over the assembled (combined, sorted, deduplicated) lines of n chunks
MergedOnce(n) == GlobalMerge(SrvDedup(SrvSort(UnmergedLines(n)), <<>>), 1, <<>>)

ServerCompleted == tasks # <<>> /\ tasks[1].status = "completed"

\* C13: the captions of a file the server split into chunks are those of one
\* orphan-merge pass over the whole list, run after the lines of all chunks have been
\* combined, sorted and deduplicated
C13_MergeOncePerRun ==
    (ServerCompleted /\ audioSegments > 0) =>
        tasks[1].captions = SrvCaptions(MergedOnce(audioSegments))

\* the separator the merge pass puts between two lines, line 307
MergeSeparator(a, b) == IF isChinese(a) \/ isChinese(b) THEN <<>> ELSE <<" ">>

\* line f is line i of the list as it was
IsSingle(f, lines, i) == f = lines[i]

\* line f is line i of the list extended with line i + 1
IsPair(f, lines, i) ==
    /\ i + 1 <= Len(lines)
    /\ f.start = lines[i].start
    /\ f.end = lines[i + 1].end
    /\ f.text = lines[i].text \o MergeSeparator(lines[i].text, lines[i + 1].text) \o lines[i + 1].text

\* C14: in one merge pass a line is extended at most once: every line of the result is
\* one line of the list or one line extended with the line after it, never with more,
\* so the result has at least half as many lines as the list
C14_ExtendedAtMostOnce ==
    SplitDone =>
        LET lines == splitOutput[1].lines
            final == splitOutput[1].final
        IN  /\ \A j \in 1 .. Len(final) :
                  \E i \in 1 .. Len(lines) : IsSingle(final[j], lines, i) \/ IsPair(final[j], lines, i)
            /\ NoEmptyText(lines) => 2 * Len(final) >= Len(lines)

\* three short lines: the first two were merged, and the third, which would have fitted
\* too, was left alone
C14_Witness ==
    /\ SplitDone
    /\ Len(splitOutput[1].lines) = 3
    /\ Len(splitOutput[1].final) = 2
    /\ IsPair(splitOutput[1].final[1], splitOutput[1].lines, 1)
    /\ IsSingle(splitOutput[1].final[2], splitOutput[1].lines, 3)
    /\ ~EndsSentence(splitOutput[1].final[1].text)
    /\ Len(splitOutput[1].final[1].text) + 1 + Len(splitOutput[1].lines[3].text) <= DEFAULT_MAX

\* the first two lines of the list are of different script classes
MixedFirstPair(lines) ==
    /\ Len(lines) >= 2
    /\ isChinese(lines[1].text) # isChinese(lines[2].text)

FirstPairLen(lines) ==
    Len(lines[1].text) + Len(MergeSeparator(lines[1].text, lines[2].text)) + Len(lines[2].text)

\* the merge pass joined the first two lines of the list
FirstPairMerged(lines, final) == final # <<>> /\ IsPair(final[1], lines, 1)

Larger(a, b) == IF a >= b THEN a ELSE b

\* C15: when the first two lines the merge pass compares are of different script
\* classes, it joins them exactly when the first does not end a sentence and the joined
\* text is no longer than the dense-script limit CN_MAX
C15_MixedPairLimit ==
    (SplitDone /\ MixedFirstPair(splitOutput[1].lines)) =>
        (FirstPairMerged(splitOutput[1].lines, splitOutput[1].final)
            <=> /\ FirstPairLen(splitOutput[1].lines) <= CN_MAX
                /\ ~EndsSentence(splitOutput[1].lines[1].text))

\* a dense-script line and a space-delimited one that together are longer than CN_MAX
\* and no longer than DEFAULT_MAX were left apart
C15_Witness ==
    /\ SplitDone
    /\ MixedFirstPair(splitOutput[1].lines)
    /\ ~EndsSentence(splitOutput[1].lines[1].text)
    /\ FirstPairLen(splitOutput[1].lines) > CN_MAX
    /\ FirstPairLen(splitOutput[1].lines) <= DEFAULT_MAX
    /\ IsSingle(splitOutput[1].final[1], splitOutput[1].lines, 1)

\* C15 as stated: for a pair of different script classes the limit is the larger of the
\* two classes' limits
C15_PermissiveLimit ==
    (SplitDone /\ MixedFirstPair(splitOutput[1].lines)) =>
        (FirstPairMerged(splitOutput[1].lines, splitOutput[1].final)
            <=> /\ FirstPairLen(splitOutput[1].lines) <= Larger(CN_MAX, DEFAULT_MAX)
                /\ ~EndsSentence(splitOutput[1].lines[1].text))

\* the entries of the reply of element k's batch that carry element k's id in the batch
EntriesFor(k) ==
    LET translations == trReplies[(k - 1) \div BATCH_SIZE]
    IN  {j \in 1 .. Len(translations) : translations[j].id = (k - 1) % BATCH_SIZE}

\* C16: the list translateSegments resolves with has the length of its input, element
\* k keeps the id, startTime and endTime of input element k, and its text is the input's
\* text when the reply of its batch has no entry for it and the trimmed text of such an
\* entry otherwise, in whatever order the batches complete; once a batch has failed the
\* call never resolves, and it has rejected as soon as it awaits the batches
C16_AlignedTranslation ==
    /\ trPc = "resolved" =>
          /\ Len(trReturned) = Len(trSegments)
          /\ \A k \in 1 .. Len(trSegments) :
                /\ trReturned[k].id = trSegments[k].id
                /\ trReturned[k].startTime = trSegments[k].startTime
                /\ trReturned[k].endTime = trSegments[k].endTime
                /\ IF EntriesFor(k) = {}
                   THEN trReturned[k].text = trSegments[k].text
                   ELSE \E j \in EntriesFor(k) :
                           trReturned[k].text =
                               trim(trReplies[(k - 1) \div BATCH_SIZE][j].text)
    /\ (\E b \in Batches : batchPc[b] = "failed") => trPc \notin {"all", "resolved"}

\* a call with four batches resolved after a batch had completed before an earlier one;
\* a block without an entry in a non-empty reply kept its text, another was translated
C16_Witness ==
    /\ trPc = "resolved"
    /\ Len(trSegments) = MaxSegments
    /\ trOutOfOrder
    /\ \E k \in 1 .. Len(trSegments) :
          /\ EntriesFor(k) = {}
          /\ trReplies[(k - 1) \div BATCH_SIZE] # <<>>
          /\ trReturned[k].text = trSegments[k].text
    /\ \E k \in 1 .. Len(trSegments) :
          /\ k > BATCH_SIZE
          /\ trReturned[k].text # trSegments[k].text

PendingLoads == {p \in Loads : loadPc[p] = "pending"}

\* C17: at most one load of FFmpeg is in flight; a call made while a load is in flight
\* shares its promise; a call made after a load has succeeded returns the instance
\* that load made and starts nothing, and every caller served has that instance; a
\* call made when the latest load has failed (or none was started) starts a fresh load
C17_SingleLoad ==
    /\ Cardinality(PendingLoads) <= 1
    /\ \A c \in Callers :
          /\ callerPc[c] = "waiting" => callerPromise[c] \in PendingLoads
          /\ callerPre[c] = "pending" => callerVia[c] = "shared"
          /\ callerPre[c] = "resolved" => callerVia[c] = "loaded"
          /\ callerPre[c] \in {"rejected", "idle"} => callerVia[c] = "fresh"
          /\ callerPc[c] = "got" =>
                /\ loadPc[callerGot[c]] = "resolved"
                /\ callerGot[c] = ffmpeg
    /\ Cardinality({p \in Loads : loadPc[p] = "resolved"}) <= 1
    /\ ffmpegLoaded => PendingLoads = {}

\* the first load failed, caller 1 then started the second and caller 2 shared it; it
\* succeeded, and caller 3, calling afterwards, got the same instance without a load
C17_Witness ==
    /\ loadPc[1] = "rejected"
    /\ loadPc[2] = "resolved"
    /\ loadPc[3] = "none"
    /\ callerPre[1] = "rejected" /\ callerVia[1] = "fresh"
    /\ callerPre[2] = "pending" /\ callerVia[2] = "shared"
    /\ callerPre[3] = "resolved" /\ callerVia[3] = "loaded"
    /\ \A c \in Callers : callerPc[c] = "got" /\ callerGot[c] = 2

\* the lines of the chunks ingested so far, in the order of their ingestion
RECURSIVE LinesIngested(_)
LinesIngested(order) ==
    IF order = <<>> THEN <<>>
    ELSE LinesIngested(SubSeq(order, 1, Len(order) - 1)) \o
         NewCaptions(SttResult(order[Len(order)]), ChunkStart(order[Len(order)]))

\* the place of line j in the stable ascending order by start time
RefRank(list, j) ==
    1 + Cardinality({k \in 1 .. Len(list) :
            \/ parseTimestamp(list[k].startTime) < parseTimestamp(list[j].startTime)
            \/ /\ parseTimestamp(list[k].startTime) = parseTimestamp(list[j].startTime)
               /\ k < j})

RefSorted(list) ==
    [r \in 1 .. Len(list) |-> list[CHOOSE j \in 1 .. Len(list) : RefRank(list, j) = r]]

\* the forward scan: a line is kept iff it is the first or starts no earlier than the
\* end of the last kept line minus 0.5 s
RECURSIVE RefScan(_, _, _)
RefScan(sorted, i, kept) ==
    IF i > Len(sorted) THEN kept
    ELSE IF kept = <<>> \/ KeepCaption_Exact(kept[Len(kept)], sorted[i])
         THEN RefScan(sorted, i + 1, Append(kept, sorted[i]))
         ELSE RefScan(sorted, i + 1, kept)

RefNumbered(kept) == [i \in 1 .. Len(kept) |-> [kept[i] EXCEPT !.id = i - 1]]

\* C18: the list emitted after an ingest is that of the reference procedure applied to
\* all lines ingested so far: stable sort ascending by start time, forward scan keeping
\* a line iff it is the first or its start is >= the end of the last kept line minus
\* 0.5 s (a start exactly 0.5 s before that end is kept), numbering 0 .. N - 1
C18_ReferenceIngest ==
    emitKind = "ingest" =>
        captions = RefNumbered(RefScan(RefSorted(LinesIngested(ingestOrder)), 1, <<>>))

\* the rule of the decision order that applies to a token, given the buffer
RefRule(buffer, token, separator, MAX_LEN, IDEAL_LEN) ==
    IF buffer = <<>> THEN "a"
    ELSE IF Len(buffer) + Len(separator) + Len(token) > MAX_LEN THEN "b"
    ELSE IF Len(buffer) < MIN_MERGE_LEN THEN "c"
    ELSE IF EndsSentence(buffer) \/ Len(buffer) >= IDEAL_LEN THEN "d"
    ELSE "e"

RefSeparator(dense) == IF dense THEN <<>> ELSE <<" ">>
RefMax(dense) == IF dense THEN CN_MAX ELSE DEFAULT_MAX
RefIdeal(dense) == IF dense THEN CN_IDEAL ELSE DEFAULT_IDEAL

\* the buffer and the lines flushed after the first n tokens, and the rule applied to
\* token n
RECURSIVE RefAfter(_, _, _)
RefAfter(tokens, dense, n) ==
    IF n = 0 THEN [buffer |-> <<>>, lines |-> <<>>, rule |-> "none"]
    ELSE LET before == RefAfter(tokens, dense, n - 1)
             rule   == RefRule(before.buffer, tokens[n], RefSeparator(dense),
                               RefMax(dense), RefIdeal(dense))
         IN  CASE rule = "a" ->
                    [buffer |-> tokens[n], lines |-> before.lines, rule |-> rule]
               [] rule \in {"b", "d"} ->
                    [buffer |-> tokens[n], lines |-> Append(before.lines, before.buffer),
                     rule |-> rule]
               [] OTHER ->
                    [buffer |-> before.buffer \o RefSeparator(dense) \o tokens[n],
                     lines |-> before.lines, rule |-> rule]

\* the lines of the reference procedure
RefLines(tokens, dense) ==
    LET last == RefAfter(tokens, dense, Len(tokens))
    IN  IF last.buffer # <<>> THEN Append(last.lines, last.buffer) ELSE last.lines

RefRules(tokens, dense) == {RefAfter(tokens, dense, n).rule : n \in 1 .. Len(tokens)}

LineTexts(lines) == [n \in 1 .. Len(lines) |-> lines[n].text]

\* C19: the lines smartSplit accumulates from the tokens of a segment are those of the
\* reference procedure that takes, for each token, the first rule that matches of
\* (a) seed an empty buffer, (b) flush and seed when the token would make the buffer
\* longer than MAX_LEN, (c) append to a buffer shorter than MIN_MERGE_LEN, (d) flush
\* and seed when the buffer ends a sentence or has IDEAL_LEN characters, (e) append;
\* and that flushes the buffer left at the end
C19_AccumulationOrder ==
    SplitDone =>
        \A k \in 1 .. Len(splitOutput[1].segments) :
            LineTexts(splitOutput[1].bySegment[k]) =
                RefLines(Tokenize(splitOutput[1].segments[k].text),
                         isChinese(splitOutput[1].segments[k].text))

\* a segment of five tokens to which the rules (a), (c), (d), (e) and (b) applied
C19_Witness ==
    /\ SplitDone
    /\ Len(Tokenize(splitOutput[1].segments[1].text)) = 5
    /\ RefRules(Tokenize(splitOutput[1].segments[1].text), FALSE) = {"a", "b", "c", "d", "e"}
    /\ Len(splitOutput[1].bySegment[1]) = 3

\* the tokens from .. to joined as the accumulator joins them
RECURSIVE JoinTokens(_, _, _, _)
JoinTokens(tokens, from, to, separator) ==
    IF from > to THEN <<>>
    ELSE IF from = to THEN tokens[to]
    ELSE JoinTokens(tokens, from, to - 1, separator) \o separator \o tokens[to]

\* the index of the last token of line n, when the lines are made of the tokens
RECURSIVE LastTokenOf(_, _, _, _)
LastTokenOf(lines, tokens, separator, n) ==
    IF n = 0 THEN 0
    ELSE LET from == LastTokenOf(lines, tokens, separator, n - 1) + 1
         IN  CHOOSE to \in from .. Len(tokens) :
                JoinTokens(tokens, from, to, separator) = lines[n]

\* C20: a buffer shorter than MIN_MERGE_LEN is not flushed while the next token fits:
\* a line shorter than MIN_MERGE_LEN is the last line of its segment, or the token
\* that follows it would have made it longer than MAX_LEN; in particular it is never
\* flushed because it ends a sentence or has reached the ideal length
C20_ShortBufferExtended ==
    SplitDone =>
        \A k \in 1 .. Len(splitOutput[1].segments) :
            LET dense  == isChinese(splitOutput[1].segments[k].text)
                tokens == Tokenize(splitOutput[1].segments[k].text)
                lines  == LineTexts(splitOutput[1].bySegment[k])
            IN  \A n \in 1 .. Len(lines) - 1 :
                    Len(lines[n]) < MIN_MERGE_LEN =>
                        Len(lines[n]) + Len(RefSeparator(dense))
                          + Len(tokens[LastTokenOf(lines, tokens, RefSeparator(dense), n) + 1])
                          > RefMax(dense)

\* the buffer "aa." was extended with the next word although it ended a sentence, and
\* the buffer "aa. bbb", still short, was flushed before a word that did not fit
C20_Witness ==
    /\ SplitDone
    /\ Len(splitOutput[1].bySegment[1]) = 2
    /\ splitOutput[1].bySegment[1][1].text = <<"a", "a", ".", " ", "b", "b", "b">>
    /\ Len(splitOutput[1].bySegment[1][2].text) = 43

\* C20 as stated: no buffer shorter than MIN_MERGE_LEN is flushed to be followed by
\* another line
C20_NeverFlushedShort ==
    SplitDone =>
        \A k \in 1 .. Len(splitOutput[1].segments) :
            \A n \in 1 .. Len(splitOutput[1].bySegment[k]) - 1 :
                Len(splitOutput[1].bySegment[k][n].text) >= MIN_MERGE_LEN

\* the segments of dense-script text, which smartSplit tokenizes at punctuation marks
DenseSegments == {k \in 1 .. Len(splitOutput[1].segments) :
                      isChinese(splitOutput[1].segments[k].text)}

\* C21: no token of a dense-script text begins with a punctuation mark (a mark is
\* always at the end of the token that precedes it)
C21_NoLeadingPunctuation ==
    SplitDone =>
        \A k \in DenseSegments :
            \A n \in 1 .. Len(splitOutput[1].chunks[k]) :
                splitOutput[1].chunks[k][n][1] \notin punctuation

\* C22: no line returned by smartSplit is longer than ABSOLUTE_MAX characters (a token
\* or buffer longer than that is split by character count)
C22_HardCap ==
    SplitDone =>
        \A n \in 1 .. Len(splitOutput[1].final) :
            Len(splitOutput[1].final[n].text) <= ABSOLUTE_MAX

\* a line of chunk i with the text the task of chunk i gives it once translated
\* (lines 268-277)
TranslatedCaption(cap, i, mode) ==
    LET t == translateSegments(<<cap>>, TrReply(i))[1]
    IN  IF mode = "Translation" THEN [cap EXCEPT !.text = t.text]
        ELSE [cap EXCEPT !.text = Bilingual(@, t.text)]

\* the lines of the chunks of order, each translated, sorted by start time
RECURSIVE TranslatedAll(_, _)
TranslatedAll(order, mode) ==
    IF order = <<>> THEN <<>>
    ELSE LET i   == order[Len(order)]
             new == NewCaptions(SttResult(i), ChunkStart(i))
         IN  SortByStart(TranslatedAll(SubSeq(order, 1, Len(order) - 1), mode)
                         \o [k \in 1 .. Len(new) |-> TranslatedCaption(new[k], i, mode)])

\* every chunk task that was started has transcribed and translated its chunk
AllChunksDone == \A i \in Chunks : taskPc[i] \in {"none", "done"}

\* C23: when a chunked run in mode Translation or Bilingual resolves and no chunk
\* failed, the list last given to onChunk holds every line that survives the dedup
\* pass over all chunks, each with its translated text
C23_FinalListTranslated ==
    (gsPc = "resolved" /\ segmentCount > 0 /\ captionMode # "Original" /\ AllChunksDone) =>
        captions = Renumber(Dedup(TranslatedAll(ingestOrder, captionMode), <<>>))

\* the chunks of order, in the order of their indices
RECURSIVE Ascending(_)
Ascending(order) ==
    IF order = <<>> THEN <<>>
    ELSE LET low == CHOOSE i \in {order[k] : k \in 1 .. Len(order)} :
                        \A k \in 1 .. Len(order) : i <= order[k]
         IN  <<low>> \o Ascending(SelectSeq(order, LAMBDA x : x # low))

\* C24: the deduplicated list made of the results of a set of chunks does not depend
\* on the order in which the chunks completed: it is the list made when the same
\* chunks complete in the order of their indices
C24_OrderIndependent ==
    emitKind = "ingest" =>
        captions = Renumber(Dedup(SequentialAll(Ascending(ingestOrder)), <<>>))

\* what tells a line from the others of a run: its two time stamps
Stamp(cap) == <<cap.startTime, cap.endTime>>

\* the lines the dedup pass dropped from the list emitted when the chunks of order
\* had been ingested
DroppedBy(order) ==
    LET all  == SequentialAll(order)
        kept == Dedup(all, <<>>)
    IN  {Stamp(all[k]) : k \in 1 .. Len(all)} \ {Stamp(kept[k]) : k \in 1 .. Len(kept)}

\* the lines dropped from a list emitted before the last one: every ingest but the
\* last, and the last as well when the last list is that of a translation
EarlierDropped ==
    LET last == IF emitKind = "ingest" THEN Len(ingestOrder) - 1 ELSE Len(ingestOrder)
    IN  UNION {DroppedBy(SubSeq(ingestOrder, 1, n)) : n \in 0 .. last}

\* C25: no line of the list last emitted by a chunk task was dropped by the dedup pass
\* from a list emitted earlier in the run
C25_DroppedStaysDropped ==
    emitKind \in {"ingest", "translated"} =>
        \A k \in 1 .. Len(captions) : Stamp(captions[k]) \notin EarlierDropped

\* the server task ended in the catch of processFile while it was transcribing
TranscriptionFailed ==
    /\ tasks # <<>>
    /\ tasks[1].status = "error"
    /\ tasks[1].stage = "transcribing"

\* C26: when the transcription of a chunk fails the server task has status 'error' and
\* no captions, the app has received no line, allSegments holds the lines of the
\* batches before the failed one only, and nothing of the task changes afterwards (no
\* later batch is transcribed)
C26_ChunkFailureFatal ==
    /\ [](TranscriptionFailed =>
            /\ tasks[1].captions = <<>>
            /\ captions = <<>>
            /\ pfPc = "done"
            /\ allSegments = BatchResults(0, batchStart - 1))
    /\ [][TranscriptionFailed => UNCHANGED <<tasks, pfPc, allSegments, batchStart>>]_vars

\* the second batch of a file of four chunks failed after the first batch had been
\* transcribed, and the client has been told
C26_Witness ==
    /\ TranscriptionFailed
    /\ audioSegments = 4
    /\ batchStart = concurrency
    /\ allSegments # <<>>
    /\ status = "ERROR"
    /\ cause = "server"

\* C27: a server task starts with status 'processing'; its status changes at most
\* once, to 'completed' or 'error', and the task does not change afterwards; captions
\* is not empty only when the status is 'completed', which implies progress 100 and
\* stage 'done'; while the task is processing its progress never decreases
C27_TaskLifecycle ==
    /\ [](tasks # <<>> =>
            /\ tasks[1].status \in {"processing", "completed", "error"}
            /\ tasks[1].captions # <<>> => tasks[1].status = "completed"
            /\ tasks[1].status = "completed" =>
                   tasks[1].progress = 100 /\ tasks[1].stage = "done")
    /\ [][/\ (tasks = <<>> /\ tasks' # <<>>) =>
                 tasks'[1].status = "processing"
          /\ tasks # <<>> =>
                 /\ tasks' # <<>>
                 /\ tasks[1].status # "processing" => tasks' = tasks
                 /\ tasks'[1].progress >= tasks[1].progress]_vars

\* a video of four chunks was extracted, split and transcribed in two batches
C27_Witness ==
    /\ tasks # <<>>
    /\ tasks[1].status = "completed"
    /\ tasks[1].captions # <<>>
    /\ audioSegments = 4
    /\ batchStart = 2 * concurrency

\* a call of poll() ran to its end on the task it had fetched
PollRead ==
    /\ polls' = polls - 1
    /\ pollResponse # <<>>
    /\ cause' # "poll"

\* pollTaskStatus's promise was resolved, and handleProcess went on
PollResolved ==
    /\ settles' = settles + 1
    /\ cause' = cause
    /\ \/ hpPc' = "done" /\ status' = "SUCCESS"
       \/ hpPc' = "serverTranslate" /\ status' = "PROCESSING"

\* pollTaskStatus's promise was rejected, and handleProcess caught the error
PollRejected ==
    /\ settles' = settles + 1
    /\ status' = "ERROR"
    /\ hpPc' = "done"

\* C28: pollTaskStatus calls resolve or reject once; at most one poll is outstanding
\* or scheduled, and none once it has settled; a poll that reads status 'completed'
\* gives the captions it read to onChunk and resolves, one that reads 'error' rejects,
\* a request that fails rejects, and a poll that reads another status schedules one
\* more poll; the promise settles in no other way; once the task has left status
\* 'processing', a pollTaskStatus that has not settled does settle
C28_PollSettlesOnce ==
    /\ [](/\ settles <= 1
          /\ polls + timers <= 1
          /\ settles = 1 => polls + timers = 0)
    /\ [][/\ (PollRead /\ pollResponse[1].status = "completed") =>
                 /\ PollResolved
                 /\ captions' = pollResponse[1].captions
                 /\ emitKind' = "server"
          /\ (PollRead /\ pollResponse[1].status = "error") =>
                 PollRejected /\ cause' = "server"
          /\ (PollRead /\ pollResponse[1].status = "processing") =>
                 /\ settles' = settles
                 /\ timers' = timers + 1
                 /\ UNCHANGED <<status, hpPc>>
          /\ (polls' = polls - 1 /\ ~PollRead) => PollRejected /\ cause' = "poll"
          /\ settles' # settles =>
                 /\ polls' = polls - 1
                 /\ timers' = timers
                 /\ PollResolved \/ PollRejected
          /\ polls' > polls => settles = 0]_vars
    /\ (polls + timers > 0 /\ tasks[1].status # "processing") ~> settles = 1

\* a poll read the completed task of a file of four chunks and the promise resolved
C28_Witness ==
    /\ settles = 1
    /\ polls + timers = 0
    /\ tsPc = "settled"
    /\ status = "SUCCESS"
    /\ emitKind = "server"
    /\ captions # <<>>
    /\ audioSegments = 4

\* C29: once handleReset has run, and as long as no file is selected, the app shows
\* no caption and its status is IDLE
C29_ResetHolds == ~videoFile => captions = <<>> /\ status = "IDLE"

\* C30: in a run of generateCaptionsStream the values handed to onProgress lie in
\* 0..100 and none is lower than the one before it; 100 is handed over at most once,
\* and only when no chunk task is still in flight
C30_ProgressMonotone ==
    /\ progress \in -1 .. 100
    /\ ~progressFell
    /\ fullReports <= 1
    /\ fullReports = 1 => InFlight = {}

====
